---- MODULE Spec2Model ----
(***************************************************************************)
(* Model of the orchestration core of famp: the plugin registry            *)
(* (famp/plugin.py, class PluginManager) and the workflow engine           *)
(* (famp/workflow.py, classes StepCondition, WorkflowStep, Workflow).      *)
(***************************************************************************)
EXTENDS Integers, Sequences, FiniteSets, TLC

(***************************************************************************)
(* Bounds of the model.                                                    *)
(***************************************************************************)
\* total number of `requires` entries of the registries drawn by InitRun
MaxEdges == 3
\* number of edges of the dependency-edge maps drawn by InitCycle
MaxGraphEdges == 4
\* largest max_attempts of the retry configurations drawn by NextRetry, and
\* largest number of consecutive failures of a body
MaxAttempts == 7
\* depth of nested run_plugin calls at which the interpreter gives up
\* (RecursionError); larger than any chain of distinct plugins
RecursionLimit == 5
\* largest number of steps of a workflow
MaxSteps == 3
\* largest number of runs of a workflow
MaxRuns == 2
\* steps of a workflow on a storage that can fail
MaxStepsStore == 2
\* entries of the requires list of a descriptor registered or reloaded
MaxRequires == 2

\* names a plugin can be registered or requested under
Names == {"a", "b", "c", "x"}
\* the names registered in the registries drawn by InitRun ("x" never is)
Plugins == {"a", "b", "c"}

(***************************************************************************)
(* Python values that end up in result dictionaries.                       *)
(***************************************************************************)
PyBool(b) == [t |-> "bool", n |-> IF b THEN 1 ELSE 0]
PyInt(n) == [t |-> "int", n |-> n]
\* a str, as the sequence of its characters
PyStr(s) == [t |-> "str", s |-> s]
PyDict(f) == [t |-> "dict", d |-> f]
PyNone == [t |-> "none"]

(***************************************************************************)
(* Errors: PluginError and its subclasses, and other exceptions.           *)
(***************************************************************************)
ErrorCode ==
    {"CONFIG_ERROR", "EXECUTION_ERROR", "DEPENDENCY_ERROR", "INITIALIZATION_ERROR",
     "VALIDATION_ERROR", "NETWORK_ERROR", "TIMEOUT_ERROR", "AUTHENTICATION_ERROR",
     "PERMISSION_ERROR", "RESOURCE_ERROR"}

\* the context dictionary of an error; absent keys are the empty values
NoContext ==
    [dependency_cycle |-> <<>>, missing_dependency |-> "", attempts |-> 0,
     last_error |-> PyNone, config |-> ""]

\* PluginError.__init__
PluginError(code, message, plugin_name, context) ==
    [exc |-> "PluginError", code |-> code, message |-> message,
     plugin_name |-> plugin_name, context |-> context]

PluginConfigError(message, plugin_name, context) ==
    [PluginError("CONFIG_ERROR", message, plugin_name, context)
        EXCEPT !.exc = "PluginConfigError"]

PluginExecutionError(message, plugin_name, context) ==
    [PluginError("EXECUTION_ERROR", message, plugin_name, context)
        EXCEPT !.exc = "PluginExecutionError"]

PluginDependencyError(message, plugin_name, context) ==
    [PluginError("DEPENDENCY_ERROR", message, plugin_name, context)
        EXCEPT !.exc = "PluginDependencyError"]

\* an exception that is no PluginError (ValueError, RecursionError, ...)
OtherException(class, message) ==
    [exc |-> class, code |-> "", message |-> message, plugin_name |-> "",
     context |-> NoContext]

\* "no exception": what a call that returns normally raises
NoError == OtherException("", "")

\* isinstance(e, PluginError)
IsPluginError(e) ==
    e.exc \in {"PluginError", "PluginConfigError", "PluginExecutionError",
               "PluginDependencyError"}

\* PluginError.to_dict (the timestamp is left out)
to_dict(e) ==
    PyDict([code |-> e.code, message |-> e.message, plugin_name |-> e.plugin_name,
            context |-> e.context])

(***************************************************************************)
(* RetryConfig.                                                            *)
(***************************************************************************)
DefaultMaxAttempts == 3
DefaultBaseDelay == 1
DefaultMaxDelay == 30
DefaultExponentialBase == 2
DefaultRetryCodes == {"NETWORK_ERROR", "TIMEOUT_ERROR", "RESOURCE_ERROR"}

RetryConfig(max_attempts, base_delay, max_delay, exponential_base, retry_codes) ==
    [max_attempts |-> max_attempts, base_delay |-> base_delay, max_delay |-> max_delay,
     exponential_base |-> exponential_base, retry_codes |-> retry_codes]

DefaultRetryConfig ==
    RetryConfig(DefaultMaxAttempts, DefaultBaseDelay, DefaultMaxDelay,
                DefaultExponentialBase, DefaultRetryCodes)

\* retry_config = None
NoRetry == RetryConfig(0, 0, 0, 0, {})

(***************************************************************************)
(* State.                                                                  *)
(***************************************************************************)
VARIABLES
    plugin_instances,   \* PluginManager.plugin_instances: name -> plugin (its requires list)
    plugin_config,      \* Plugin.config of every registered plugin
    dependency_graph,   \* PluginManager._dependency_graph: name -> required names, in the
                        \* iteration order of the set built by _register_plugin
    call,               \* the last top-level run_plugin call and what came of it
    detect,             \* the last _detect_circular_dependencies call and what came of it
    workflows,          \* WorkflowManager.workflows: name -> Workflow
    state_files,        \* the files <data_dir>/workflows/<name>.json: name -> dumped state
    run,                \* the Workflow.run call in flight or last finished: where it stands,
                        \* the steps it executed and how it ended
    manager_call,       \* the last create_workflow or delete_workflow call and what came of it
    evaluation          \* the last StepCondition.evaluate call and what came of it

vars == <<plugin_instances, plugin_config, dependency_graph, call, detect,
          workflows, state_files, run, manager_call, evaluation>>

\* the variables of the plugin registry and of the workflow engine
registry_vars == <<plugin_instances, plugin_config, dependency_graph>>

workflow_vars == <<workflows, state_files, run, manager_call, evaluation>>

(***************************************************************************)
(* Helpers on sequences and numbers.                                       *)
(***************************************************************************)
Range(s) == {s[i] : i \in DOMAIN s}

\* list.index: the first position of x in s
IndexOf(s, x) == CHOOSE i \in DOMAIN s : s[i] = x /\ \A j \in 1..(i - 1) : s[j] # x

Min2(m, n) == IF m <= n THEN m ELSE n

\* p is a proper prefix of q
ProperPrefixOf(p, q) == Len(p) < Len(q) /\ SubSeq(q, 1, Len(p)) = p

RECURSIVE Pow(_, _)
Pow(b, e) == IF e = 0 THEN 1 ELSE b * Pow(b, e - 1)

(***************************************************************************)
(* Plugins.                                                                *)
(***************************************************************************)
\* PluginDependency
PluginDependency(name, optional) == [name |-> name, optional |-> optional]

\* config arguments: None, the empty dict, and two non-empty dicts
Configs == {"none", "empty", "c1", "c2"}

\* bool(config) as used by `if config:`
Truthy(config) == config \notin {"none", "empty"}

\* Plugin.is_error_retryable: membership in the default RetryConfig().retry_codes
is_error_retryable(e) == e.code \in DefaultRetryCodes

\* PluginManager.get_plugin(name) is not None
Registered(name) == name \in DOMAIN plugin_instances

(***************************************************************************)
(* PluginManager._validate_dependencies: the error it raises, or NoError.  *)
(***************************************************************************)
_validate_dependencies(name) ==
    IF ~Registered(name)
    THEN PluginDependencyError("not found", name, NoContext)
    ELSE LET reqs == plugin_instances[name].requires
             missing == {i \in DOMAIN reqs :
                            ~Registered(reqs[i].name) /\ ~reqs[i].optional}
         IN  IF missing = {}
             THEN NoError
             ELSE LET i == CHOOSE k \in missing : \A j \in missing : k <= j
                  IN  PluginDependencyError("required plugin not found", name,
                          [NoContext EXCEPT !.missing_dependency = reqs[i].name])

(***************************************************************************)
(* PluginManager._detect_circular_dependencies.  visit returns the cycle   *)
(* it raises with (<<>> when it returns normally) and the visited set.     *)
(***************************************************************************)
\* self._dependency_graph.get(node, set()), in iteration order
GraphDeps(node) ==
    IF node \in DOMAIN dependency_graph THEN dependency_graph[node] ELSE <<>>

RECURSIVE visit(_, _, _), visit_deps(_, _, _, _)
\* visit without the test `node in path`: a node already seen is only skipped
visit_no_path_check(node, path, visited) ==
    IF node \notin visited
    THEN visit_deps(GraphDeps(node), 1, Append(path, node), visited \cup {node})
    ELSE [cycle |-> <<>>, visited |-> visited]

\* visit testing `node in visited` where the code tests `node in path`
visit_visited_check(node, path, visited) ==
    IF node \in visited
    THEN [cycle |-> Append(path, node), visited |-> visited]
    ELSE visit_deps(GraphDeps(node), 1, Append(path, node), visited \cup {node})

visit(node, path, visited) ==
    IF node \in Range(path)
    THEN [cycle |-> SubSeq(path, IndexOf(path, node), Len(path)) \o <<node>>,
          visited |-> visited]
    ELSE IF node \notin visited
    THEN visit_deps(GraphDeps(node), 1, Append(path, node), visited \cup {node})
    ELSE [cycle |-> <<>>, visited |-> visited]

\* the loop `for dep in ...: visit(dep)` from its i-th element on
visit_deps(deps, i, path, visited) ==
    IF i > Len(deps)
    THEN [cycle |-> <<>>, visited |-> visited]
    ELSE LET r == visit(deps[i], path, visited)
         IN  IF r.cycle # <<>> THEN r ELSE visit_deps(deps, i + 1, path, r.visited)

\* the cycle reported for name, <<>> when none is
DetectedCycle(name) == visit(name, <<>>, {}).cycle

_detect_circular_dependencies(name) ==
    LET cycle == DetectedCycle(name)
    IN  IF cycle = <<>>
        THEN NoError
        ELSE PluginDependencyError("circular dependency", name,
                 [NoContext EXCEPT !.dependency_cycle = cycle])


(***************************************************************************)
(* Plugin bodies are inputs of a run: body[p] = [fails, err, value] says    *)
(* that the next `fails` invocations of p's run raise err (fails = -1:     *)
(* every invocation does) and the following ones return                    *)
(* {"success": True, "value": value}, with a further entry "stamp" when    *)
(* the body has one, and with the body's own "success" when it has one.    *)
(* A run threads st = [config, body, trace, delays] through the calls:     *)
(* trace lists the body invocations, each with the path of `requires`      *)
(* indices that leads from the top-level call to it, the exception it      *)
(* raised and the dictionary it returned, and delays lists the arguments   *)
(* of asyncio.sleep.                                                       *)
(***************************************************************************)
Always == 0 - 1

\* the exception a failing body raises: a PluginError with that code, or another exception
BodyError(p, err) ==
    IF err \in ErrorCode
    THEN PluginError(err, "body failed", p, NoContext)
    ELSE OtherException(err, "body failed")

Returned(value, st) == [raised |-> FALSE, value |-> value, error |-> NoError, st |-> st]

Raised(error, st) == [raised |-> TRUE, value |-> PyNone, error |-> error, st |-> st]

\* await plugin.run(tab, account)
InvokeBody(p, st, path) ==
    LET b == st.body[p]
        error == IF b.fails = 0 THEN NoError ELSE BodyError(p, b.err)
        result == [success |-> PyBool(IF "success" \in DOMAIN b THEN b.success ELSE TRUE),
                   value |-> PyInt(b.value)]
        returned == IF "stamp" \in DOMAIN b THEN ("stamp" :> b.stamp) @@ result ELSE result
        traced == [st EXCEPT !.trace =
                      Append(@, [plugin |-> p, path |-> path, error |-> error,
                                 returned |-> IF b.fails = 0 THEN PyDict(returned)
                                              ELSE PyNone])]
    IN  IF b.fails = 0
        THEN Returned(returned, traced)
        ELSE Raised(error, [traced EXCEPT !.body[p].fails = IF @ > 0 THEN @ - 1 ELSE @])

(***************************************************************************)
(* Plugin.configure: _validate_config, then self.config = config; any      *)
(* exception of the validator becomes a PluginConfigError.                 *)
(***************************************************************************)
configure(p, config, st) ==
    IF config \in plugin_instances[p].invalid
    THEN Raised(PluginConfigError("invalid configuration", p,
                    [NoContext EXCEPT !.config = config]), st)
    ELSE Returned(PyNone, [st EXCEPT !.config[p] = config])

(***************************************************************************)
(* PluginManager._retry_execution, from the loop test on: attempt is the   *)
(* loop counter and last_error the error of the latest attempt.            *)
(***************************************************************************)
\* the delay with the exponent one too large
RetryDelay_exponent_attempt(config, attempt) ==
    Min2(config.base_delay * Pow(config.exponential_base, attempt), config.max_delay)

RetryDelay(config, attempt) ==
    Min2(config.base_delay * Pow(config.exponential_base, attempt - 1), config.max_delay)

RECURSIVE _retry_loop(_, _, _, _, _, _)
\* the loop invoking the body of the plugin's first dependency again before
\* every new attempt
_retry_loop_reruns_dependency(p, config, attempt, last_error, st, path) ==
    IF attempt < config.max_attempts
    THEN LET slept == [st EXCEPT !.delays = Append(@, RetryDelay(config, attempt))]
             reqs == plugin_instances[p].requires
             again == IF reqs = <<>> THEN slept
                      ELSE InvokeBody(reqs[1].name, slept, Append(path, 1)).st
             r == InvokeBody(p, again, path)
         IN  IF ~r.raised
             THEN r
             ELSE IF ~IsPluginError(r.error) \/ ~is_error_retryable(r.error)
             THEN r
             ELSE _retry_loop(p, config, attempt + 1, r.error, r.st, path)
    ELSE Raised(PluginExecutionError("failed after max_attempts attempts", p,
                    [NoContext EXCEPT !.attempts = config.max_attempts,
                                      !.last_error = to_dict(last_error)]), st)

_retry_loop(p, config, attempt, last_error, st, path) ==
    IF attempt < config.max_attempts
    THEN LET slept == [st EXCEPT !.delays = Append(@, RetryDelay(config, attempt))]
             r == InvokeBody(p, slept, path)
         IN  IF ~r.raised
             THEN r
             ELSE IF ~IsPluginError(r.error) \/ ~is_error_retryable(r.error)
             THEN r
             ELSE _retry_loop(p, config, attempt + 1, r.error, r.st, path)
    ELSE Raised(PluginExecutionError("failed after max_attempts attempts", p,
                    [NoContext EXCEPT !.attempts = config.max_attempts,
                                      !.last_error = to_dict(last_error)]), st)

_retry_execution(p, error, retry_config, st, path) ==
    LET config == IF retry_config = NoRetry THEN DefaultRetryConfig ELSE retry_config
    IN  _retry_loop(p, config, 1, error, st, path)

(***************************************************************************)
(* PluginManager.run_plugin, lines 504-542: run the body with retry        *)
(* support; every exception raised here is returned as a failure result.   *)
(***************************************************************************)
\* RunBody without `results["success"] = True`: the body's own field stays
RunBody_keeps_body_success(name, retry_config, results, st, path) ==
    LET first == InvokeBody(name, st, path)
        r == IF first.raised /\ IsPluginError(first.error)
                /\ is_error_retryable(first.error) /\ retry_config # NoRetry
             THEN _retry_execution(name, first.error, retry_config, first.st, path)
             ELSE first
    IN  IF ~r.raised
        THEN Returned(("execution_time" :> PyInt(0)) @@ r.value @@ results
                          @@ ("success" :> PyBool(TRUE)), r.st)
        ELSE LET e == IF IsPluginError(r.error)
                      THEN r.error
                      ELSE PluginExecutionError(r.error.message, name, NoContext)
             IN  Returned([success |-> PyBool(FALSE), error |-> to_dict(e)], r.st)

RunBody(name, retry_config, results, st, path) ==
    LET first == InvokeBody(name, st, path)
        r == IF first.raised /\ IsPluginError(first.error)
                /\ is_error_retryable(first.error) /\ retry_config # NoRetry
             THEN _retry_execution(name, first.error, retry_config, first.st, path)
             ELSE first
    IN  IF ~r.raised
        THEN Returned(("success" :> PyBool(TRUE)) @@ ("execution_time" :> PyInt(0))
                          @@ r.value @@ results, r.st)
        ELSE LET e == IF IsPluginError(r.error)
                      THEN r.error
                      ELSE PluginExecutionError(r.error.message, name, NoContext)
             IN  Returned([success |-> PyBool(FALSE), error |-> to_dict(e)], r.st)

(***************************************************************************)
(* PluginManager.run_plugin.  run_deps is the loop over plugin.requires    *)
(* from its i-th entry on, results the dictionary built so far.            *)
(***************************************************************************)
RECURSIVE run_plugin(_, _, _, _, _), run_deps(_, _, _, _, _)
\* run_plugin running the plugin's own body before the loop over its requires
run_plugin_body_first(name, config, retry_config, st, path) ==
    IF Len(path) >= RecursionLimit
    THEN Raised(OtherException("RecursionError", "maximum recursion depth exceeded"), st)
    ELSE IF ~Registered(name)
    THEN Raised(PluginDependencyError("not found", name, NoContext), st)
    ELSE IF _validate_dependencies(name) # NoError
    THEN Raised(_validate_dependencies(name), st)
    ELSE IF _detect_circular_dependencies(name) # NoError
    THEN Raised(_detect_circular_dependencies(name), st)
    ELSE LET b == RunBody(name, retry_config, <<>>, st, path)
             d == run_deps(name, 1, b.value, b.st, path)
         IN  d

\* run_plugin running a plugin's body at most once per top-level call: a
\* plugin whose body was invoked before is not run again
run_plugin_memoised(name, config, retry_config, st, path) ==
    IF \E k \in DOMAIN st.trace : st.trace[k].plugin = name
    THEN Returned(("success" :> PyBool(TRUE)), st)
    ELSE IF Len(path) >= RecursionLimit
    THEN Raised(OtherException("RecursionError", "maximum recursion depth exceeded"), st)
    ELSE IF ~Registered(name)
    THEN Raised(PluginDependencyError("not found", name, NoContext), st)
    ELSE IF _validate_dependencies(name) # NoError
    THEN Raised(_validate_dependencies(name), st)
    ELSE IF _detect_circular_dependencies(name) # NoError
    THEN Raised(_detect_circular_dependencies(name), st)
    ELSE LET c == IF Truthy(config) THEN configure(name, config, st) ELSE Returned(PyNone, st)
         IN  IF c.raised
             THEN c
             ELSE LET d == run_deps(name, 1, <<>>, c.st, path)
                  IN  IF d.raised THEN d ELSE RunBody(name, retry_config, d.value, d.st, path)

run_plugin(name, config, retry_config, st, path) ==
    IF Len(path) >= RecursionLimit
    THEN Raised(OtherException("RecursionError", "maximum recursion depth exceeded"), st)
    ELSE IF ~Registered(name)
    THEN Raised(PluginDependencyError("not found", name, NoContext), st)
    ELSE IF _validate_dependencies(name) # NoError
    THEN Raised(_validate_dependencies(name), st)
    ELSE IF _detect_circular_dependencies(name) # NoError
    THEN Raised(_detect_circular_dependencies(name), st)
    ELSE LET c == IF Truthy(config) THEN configure(name, config, st) ELSE Returned(PyNone, st)
         IN  IF c.raised
             THEN c
             ELSE LET d == run_deps(name, 1, <<>>, c.st, path)
                  IN  IF d.raised THEN d ELSE RunBody(name, retry_config, d.value, d.st, path)

run_deps(name, i, results, st, path) ==
    LET reqs == plugin_instances[name].requires
    IN  IF i > Len(reqs)
        THEN Returned(results, st)
        ELSE LET dep == reqs[i]
             IN  IF ~dep.optional /\ ~Registered(dep.name)
                 THEN Raised(PluginDependencyError("required plugin not found", name,
                                                   NoContext), st)
                 ELSE LET r == run_plugin(dep.name, "none", NoRetry, st, Append(path, i))
                      IN  IF ~r.raised
                          THEN run_deps(name, i + 1,
                                        ((dep.name \o "_results") :> PyDict(r.value)) @@ results,
                                        r.st, path)
                          ELSE IF IsPluginError(r.error) /\ dep.optional
                          THEN run_deps(name, i + 1, results, r.st, path)
                          ELSE r


(***************************************************************************)
(* PluginManager._register_plugin.                                         *)
(***************************************************************************)
\* a Plugin instance: its requires property and the configs its validator rejects
Plugin(requires, invalid) == [requires |-> requires, invalid |-> invalid]

\* {dep.name for dep in plugin.requires if not dep.optional}
RequiredNames(plugin) ==
    {plugin.requires[i].name : i \in {j \in DOMAIN plugin.requires :
                                         ~plugin.requires[j].optional}}

\* the orders in which a set can be iterated
Orders(S) == {s \in [1..Cardinality(S) -> S] : Range(s) = S}

\* the registry top-level state of a run: stored configs, body inputs, empty logs
RunState(bodies) == [config |-> plugin_config, body |-> bodies, trace |-> <<>>,
                     delays |-> <<>>]

\* no call made yet
NoCall ==
    [name |-> "", config |-> "none", retry_config |-> NoRetry, raised |-> FALSE,
     value |-> PyNone, error |-> NoError, trace |-> <<>>, delays |-> <<>>]

\* the record of a finished top-level call
CallRecord(name, config, retry_config, r) ==
    [name |-> name, config |-> config, retry_config |-> retry_config,
     raised |-> r.raised, value |-> r.value, error |-> r.error,
     trace |-> r.st.trace, delays |-> r.st.delays]

NoDetect == [name |-> "", error |-> NoError]

(***************************************************************************)
(* StepCondition.evaluate.  The comparisons are Python's: bool and int     *)
(* compare as numbers, values of unrelated types are unequal and raise     *)
(* TypeError when ordered.                                                 *)
(***************************************************************************)
WorkflowStepStatus == {"pending", "running", "completed", "failed", "skipped"}

WorkflowStatus == {"pending", "running", "completed", "failed", "paused"}

IsNumber(v) == v.t \in {"bool", "int"}

\* actual_value == self.value
PyEq(x, y) ==
    IF IsNumber(x) /\ IsNumber(y) THEN x.n = y.n
    ELSE IF x.t # y.t THEN FALSE
    ELSE x = y

\* the string whose characters are s
RECURSIVE Str(_)
Str(s) == IF s = <<>> THEN "" ELSE s[1] \o Str(Tail(s))

\* s is a contiguous part of t
IsSubstring(s, t) ==
    \E i \in 0..(Len(t) - Len(s)) : SubSeq(t, i + 1, i + Len(s)) = s

\* lexicographic order of two strings whose characters are digits and letters
CharOrder == <<"0", "1", "2", "4", "a", "b", "e", "s", "t">>

CharLess(c, d) == IndexOf(CharOrder, c) < IndexOf(CharOrder, d)

StrLess(s, t) ==
    \/ ProperPrefixOf(s, t)
    \/ \E j \in 1..Min2(Len(s), Len(t)) :
          SubSeq(s, 1, j - 1) = SubSeq(t, 1, j - 1) /\ CharLess(s[j], t[j])

\* the outcome of a comparison: a bool, or a TypeError
Truth(b) == [raised |-> FALSE, value |-> b]

TypeError == [raised |-> TRUE, value |-> FALSE]

\* x < y
PyLess(x, y) ==
    IF IsNumber(x) /\ IsNumber(y) THEN Truth(x.n < y.n)
    ELSE IF x.t = "str" /\ y.t = "str" THEN Truth(StrLess(x.s, y.s))
    ELSE TypeError

\* x in container
PyIn(x, container) ==
    IF container.t = "str"
    THEN IF x.t = "str" THEN Truth(IsSubstring(x.s, container.s)) ELSE TypeError
    ELSE IF container.t = "dict"
    THEN IF x.t = "dict" THEN TypeError
         ELSE Truth(x.t = "str" /\ Str(x.s) \in DOMAIN container.d)
    ELSE TypeError

StepCondition(plugin_name, field, operator, value) ==
    [plugin_name |-> plugin_name, field |-> field, operator |-> operator, value |-> value]

\* condition = None
NoCondition == StepCondition("", "", "", PyNone)

\* evaluate answering `exists` as soon as the plugin has a result
evaluate_exists_any_result(self, results) ==
    IF self.plugin_name \notin DOMAIN results
    THEN Truth(FALSE)
    ELSE LET plugin_results == results[self.plugin_name]
         IN  IF self.operator = "exists"
             THEN Truth(TRUE)
             ELSE IF self.field \notin DOMAIN plugin_results
             THEN Truth(FALSE)
             ELSE LET actual_value == plugin_results[self.field]
                  IN  CASE self.operator = "eq" -> Truth(PyEq(actual_value, self.value))
                        [] self.operator = "ne" -> Truth(~PyEq(actual_value, self.value))
                        [] self.operator = "gt" -> PyLess(self.value, actual_value)
                        [] self.operator = "lt" -> PyLess(actual_value, self.value)
                        [] self.operator = "contains" -> PyIn(self.value, actual_value)
                        [] OTHER -> Truth(FALSE)

evaluate(self, results) ==
    IF self.plugin_name \notin DOMAIN results
    THEN Truth(FALSE)
    ELSE LET plugin_results == results[self.plugin_name]
         IN  IF self.field \notin DOMAIN plugin_results
             THEN Truth(FALSE)
             ELSE LET actual_value == plugin_results[self.field]
                  IN  CASE self.operator = "eq" -> Truth(PyEq(actual_value, self.value))
                        [] self.operator = "ne" -> Truth(~PyEq(actual_value, self.value))
                        [] self.operator = "gt" -> PyLess(self.value, actual_value)
                        [] self.operator = "lt" -> PyLess(actual_value, self.value)
                        [] self.operator = "contains" -> PyIn(self.value, actual_value)
                        [] self.operator = "exists" -> Truth(TRUE)
                        [] OTHER -> Truth(FALSE)

\* should_run ignoring the condition: every step runs
should_run_unconditional(step, previous_results) == Truth(TRUE)

\* WorkflowStep.should_run
should_run(step, previous_results) ==
    IF step.condition = NoCondition
    THEN Truth(TRUE)
    ELSE evaluate(step.condition, previous_results)

\* the record of an evaluate call: the condition, the results it was given and
\* what it returned or raised
NoEvaluation == [condition |-> NoCondition, results |-> <<>>, outcome |-> Truth(FALSE)]

(***************************************************************************)
(* WorkflowStep and Workflow.                                              *)
(***************************************************************************)
\* resume_from = None
None == 0 - 1

\* datetime.datetime.now()
Now == [t |-> "datetime"]

\* datetime.isoformat and datetime.fromisoformat
isoformat(d) == PyStr(<<"2", "0", "2", "4">>)

fromisoformat(s) == Now

(***************************************************************************)
(* json.dump with DateTimeEncoder, and json.load: Python values to JSON    *)
(* values and back.  An error record (PluginError.to_dict) holds strings   *)
(* and numbers only and is kept as it is.                                  *)
(***************************************************************************)
RECURSIVE json_dump(_)
json_dump(v) ==
    CASE v.t = "bool" -> [j |-> IF v.n = 1 THEN "true" ELSE "false"]
      [] v.t = "int" -> [j |-> "number", n |-> v.n]
      [] v.t = "str" -> [j |-> "string", s |-> v.s]
      [] v.t = "none" -> [j |-> "null"]
      [] v.t = "datetime" -> json_dump(isoformat(v))
      [] v.t = "dict" -> IF "code" \in DOMAIN v.d
                         THEN [j |-> "object", d |-> v.d]
                         ELSE [j |-> "object", d |-> [k \in DOMAIN v.d |-> json_dump(v.d[k])]]

RECURSIVE json_load(_)
json_load(x) ==
    CASE x.j = "true" -> PyBool(TRUE)
      [] x.j = "false" -> PyBool(FALSE)
      [] x.j = "number" -> PyInt(x.n)
      [] x.j = "string" -> PyStr(x.s)
      [] x.j = "null" -> PyNone
      [] x.j = "object" -> IF "code" \in DOMAIN x.d
                           THEN PyDict(x.d)
                           ELSE PyDict([k \in DOMAIN x.d |-> json_load(x.d[k])])

WorkflowStep(plugin_name, config, condition) ==
    [plugin_name |-> plugin_name, config |-> config, condition |-> condition,
     status |-> "pending", result |-> PyNone, error |-> PyNone,
     start_time |-> PyNone, end_time |-> PyNone]

Workflow(name, description, data_dir) ==
    [name |-> name, description |-> description, steps |-> <<>>, status |-> "pending",
     current_step |-> 0, results |-> <<>>, data_dir |-> data_dir]

\* add_step putting the new step in front of the list
add_step_prepends(self, plugin_name, config, condition) ==
    [self EXCEPT !.steps = <<WorkflowStep(plugin_name, config, condition)>> \o @]

add_step(self, plugin_name, config, condition) ==
    [self EXCEPT !.steps = Append(@, WorkflowStep(plugin_name, config, condition))]

\* self.model_dump(): every field of the workflow
model_dump(self) == self

\* the JSON text json.dump writes for a dumped step and a dumped workflow
dump_step(step) ==
    [plugin_name |-> step.plugin_name,
     config |-> step.config,
     condition |-> IF step.condition = NoCondition
                   THEN [j |-> "null"]
                   ELSE [j |-> "object",
                         d |-> [step.condition EXCEPT !.value = json_dump(@)]],
     status |-> step.status,
     result |-> json_dump(step.result),
     error |-> json_dump(step.error),
     start_time |-> json_dump(step.start_time),
     end_time |-> json_dump(step.end_time)]

dump_state(state) ==
    [name |-> state.name,
     description |-> state.description,
     steps |-> [i \in DOMAIN state.steps |-> dump_step(state.steps[i])],
     status |-> state.status,
     current_step |-> state.current_step,
     results |-> [p \in DOMAIN state.results |-> json_dump(PyDict(state.results[p]))],
     data_dir |-> state.data_dir]

\* what the storage does during a call of save_state: it works; open() raises;
\* json.dump raises after open() has truncated the file; mkdir raises
Disks == {"ok", "open_fails", "dump_fails", "mkdir_fails"}

WorkingDisk == {"ok"}

\* the exception a failing mkdir raises
OSError == OtherException("OSError", "mkdir")

\* the content of a state file that open(state_file, "w") has truncated
Truncated == [truncated |-> TRUE]

\* Workflow.save_state: the files after the call and the exception it raises.
\* mkdir (line 246) is outside the try; the errors of open and json.dump
\* (lines 256-260) are logged and swallowed
save_state(self, files, disk) ==
    IF self.data_dir = "none"
    THEN [files |-> files, error |-> NoError]
    ELSE IF disk = "mkdir_fails"
    THEN [files |-> files, error |-> OSError]
    ELSE IF disk = "open_fails"
    THEN [files |-> files, error |-> NoError]
    ELSE IF disk = "dump_fails"
    THEN [files |-> (self.name :> Truncated) @@ files, error |-> NoError]
    ELSE [files |-> (self.name :> dump_state(model_dump(self))) @@ files,
          error |-> NoError]

\* WorkflowStep.from_dict on a step of the loaded JSON
from_dict(data) ==
    [plugin_name |-> data.plugin_name,
     config |-> data.config,
     condition |-> IF data.condition.j = "null"
                   THEN NoCondition
                   ELSE [data.condition.d EXCEPT !.value = json_load(@)],
     status |-> data.status,
     result |-> json_load(data.result),
     error |-> json_load(data.error),
     start_time |-> IF data.start_time.j = "null" THEN PyNone
                    ELSE fromisoformat(json_load(data.start_time)),
     end_time |-> IF data.end_time.j = "null" THEN PyNone
                  ELSE fromisoformat(json_load(data.end_time))]

\* Workflow.load_state on the content of a state file
load_state(file) ==
    [name |-> file.name,
     description |-> file.description,
     steps |-> [i \in DOMAIN file.steps |-> from_dict(file.steps[i])],
     status |-> file.status,
     current_step |-> file.current_step,
     results |-> [p \in DOMAIN file.results |-> json_load(file.results[p]).d],
     data_dir |-> file.data_dir]

(***************************************************************************)
(* Workflow.run.  A call stands at the await of run_plugin ("await"), or   *)
(* has returned or raised; Position is where it stands after a stretch of  *)
(* code that runs without suspending, with the workflow, the files and     *)
(* the exception raised.                                                   *)
(***************************************************************************)
Position(pc, self, files, error) == [pc |-> pc, self |-> self, files |-> files, error |-> error]

\* the handler as it would be without `self.status = WorkflowStatus.FAILED`
run_failed_status_kept(self, files, error, disk) ==
    LET saved == save_state(self, files, disk)
    IN  Position("raised", self, saved.files,
                 IF saved.error = NoError THEN error ELSE saved.error)

\* the handler `except Exception` of lines 232-235: an exception raised by
\* save_state in the handler replaces the one being handled
run_failed(self, files, error, disk) ==
    LET failed == [self EXCEPT !.status = "failed"]
        saved == save_state(failed, files, disk)
    IN  Position("raised", failed, saved.files,
                 IF saved.error = NoError THEN error ELSE saved.error)

\* the while loop of lines 193-230 from its test to the await of run_plugin
RECURSIVE run_loop(_, _, _)
\* the loop moving past a step that should not run without marking it Skipped
run_loop_skip_unmarked(self, files, disk) ==
    IF self.current_step < Len(self.steps)
    THEN LET i == self.current_step + 1
             go == should_run(self.steps[i], self.results)
         IN  IF go.raised
             THEN run_failed(self, files, OtherException("TypeError", "unorderable"), disk)
             ELSE IF ~go.value
             THEN run_loop([self EXCEPT !.current_step = @ + 1], files, disk)
             ELSE Position("await", [self EXCEPT !.steps[i].status = "running",
                                                 !.steps[i].start_time = Now],
                           files, NoError)
    ELSE LET completed == [self EXCEPT !.status = "completed"]
             saved == save_state(completed, files, disk)
         IN  IF saved.error = NoError
             THEN Position("returned", completed, saved.files, NoError)
             ELSE run_failed(completed, saved.files, saved.error, disk)

run_loop(self, files, disk) ==
    IF self.current_step < Len(self.steps)
    THEN LET i == self.current_step + 1
             go == should_run(self.steps[i], self.results)
         IN  IF go.raised
             THEN run_failed(self, files, OtherException("TypeError", "unorderable"), disk)
             ELSE IF ~go.value
             THEN run_loop([self EXCEPT !.steps[i].status = "skipped",
                                        !.current_step = @ + 1], files, disk)
             ELSE Position("await", [self EXCEPT !.steps[i].status = "running",
                                                 !.steps[i].start_time = Now],
                           files, NoError)
    ELSE LET completed == [self EXCEPT !.status = "completed"]
             saved == save_state(completed, files, disk)
         IN  IF saved.error = NoError
             THEN Position("returned", completed, saved.files, NoError)
             ELSE run_failed(completed, saved.files, saved.error, disk)

\* lines 187-190, then the loop
run_from(self, files, resume_from, disk) ==
    run_loop([self EXCEPT !.current_step = IF resume_from = None THEN @ ELSE resume_from,
                          !.status = "running"], files, disk)

\* run_resumed keeping the entry a plugin already has in the results
run_resumed_keeps_first_result(self, files, r, disk) ==
    LET i == self.current_step + 1
        ended == [self EXCEPT !.steps[i].end_time = Now]
    IN  IF ~r.raised
        THEN LET completed == [ended EXCEPT !.steps[i].result = PyDict(r.value),
                                            !.steps[i].status = "completed",
                                            !.results = @ @@ (self.steps[i].plugin_name :> r.value)]
                 saved == save_state(completed, files, disk)
             IN  IF saved.error = NoError
                 THEN run_loop([completed EXCEPT !.current_step = @ + 1], saved.files, disk)
                 ELSE run_failed(completed, saved.files, saved.error, disk)
        ELSE IF IsPluginError(r.error)
        THEN LET failed == [ended EXCEPT !.steps[i].error = to_dict(r.error),
                                         !.steps[i].status = "failed",
                                         !.status = "failed"]
                 saved == save_state(failed, files, disk)
             IN  run_failed(failed, saved.files,
                            IF saved.error = NoError THEN r.error ELSE saved.error, disk)
        ELSE LET saved == save_state(ended, files, disk)
             IN  run_failed(ended, saved.files,
                            IF saved.error = NoError THEN r.error ELSE saved.error, disk)

\* run_resumed treating a result with success = False like a raised plugin error
run_resumed_failure_result_fails(self, files, r, disk) ==
    LET i == self.current_step + 1
        ended == [self EXCEPT !.steps[i].end_time = Now]
    IN  IF ~r.raised /\ r.value.success = PyBool(TRUE)
        THEN LET completed == [ended EXCEPT !.steps[i].result = PyDict(r.value),
                                            !.steps[i].status = "completed",
                                            !.results = (self.steps[i].plugin_name :> r.value) @@ @]
                 saved == save_state(completed, files, disk)
             IN  IF saved.error = NoError
                 THEN run_loop([completed EXCEPT !.current_step = @ + 1], saved.files, disk)
                 ELSE run_failed(completed, saved.files, saved.error, disk)
        ELSE IF ~r.raised \/ IsPluginError(r.error)
        THEN LET error == IF r.raised THEN r.error
                          ELSE PluginExecutionError("body failed", self.steps[i].plugin_name,
                                                    NoContext)
                 failed == [ended EXCEPT !.steps[i].error = to_dict(error),
                                         !.steps[i].status = "failed",
                                         !.status = "failed"]
                 saved == save_state(failed, files, disk)
             IN  run_failed(failed, saved.files,
                            IF saved.error = NoError THEN error ELSE saved.error, disk)
        ELSE LET saved == save_state(ended, files, disk)
             IN  run_failed(ended, saved.files,
                            IF saved.error = NoError THEN r.error ELSE saved.error, disk)

\* lines 213-225 once run_plugin has come back with r, then the loop; an
\* exception raised by save_state in the finally clause replaces the one in
\* flight, if any, and goes to the handler of lines 232-235
run_resumed(self, files, r, disk) ==
    LET i == self.current_step + 1
        ended == [self EXCEPT !.steps[i].end_time = Now]
    IN  IF ~r.raised
        THEN LET completed == [ended EXCEPT !.steps[i].result = PyDict(r.value),
                                            !.steps[i].status = "completed",
                                            !.results = (self.steps[i].plugin_name :> r.value) @@ @]
                 saved == save_state(completed, files, disk)
             IN  IF saved.error = NoError
                 THEN run_loop([completed EXCEPT !.current_step = @ + 1], saved.files, disk)
                 ELSE run_failed(completed, saved.files, saved.error, disk)
        ELSE IF IsPluginError(r.error)
        THEN LET failed == [ended EXCEPT !.steps[i].error = to_dict(r.error),
                                         !.steps[i].status = "failed",
                                         !.status = "failed"]
                 saved == save_state(failed, files, disk)
             IN  run_failed(failed, saved.files,
                            IF saved.error = NoError THEN r.error ELSE saved.error, disk)
        ELSE LET saved == save_state(ended, files, disk)
             IN  run_failed(ended, saved.files,
                            IF saved.error = NoError THEN r.error ELSE saved.error, disk)

\* run_cancelled as it would be if the cursor moved on before the finally clause
run_cancelled_cursor_advanced(self, files, disk) ==
    LET i == self.current_step + 1
        ended == [self EXCEPT !.steps[i].end_time = Now, !.current_step = @ + 1]
        saved == save_state(ended, files, disk)
    IN  IF saved.error = NoError
        THEN Position("raised", ended, saved.files, OtherException("CancelledError", ""))
        ELSE run_failed(ended, saved.files, saved.error, disk)

\* a CancelledError thrown into the await of run_plugin: the finally clause
\* of lines 221-223 runs and no handler catches it; an exception raised by
\* save_state replaces it and is caught by the handler of lines 232-235
run_cancelled(self, files, disk) ==
    LET i == self.current_step + 1
        ended == [self EXCEPT !.steps[i].end_time = Now]
        saved == save_state(ended, files, disk)
    IN  IF saved.error = NoError
        THEN Position("raised", ended, saved.files, OtherException("CancelledError", ""))
        ELSE run_failed(ended, saved.files, saved.error, disk)

\* the record of a Workflow.run call: the workflow, the resume_from argument, the
\* number of steps at the call, how many calls came before, where it stands, the
\* steps whose plugin it ran (with the exception the plugin's own body raised and
\* whether run_plugin raised), the exception it raised, and the cursor at which
\* the call before failed
NoRun ==
    [name |-> "", resume_from |-> None, length |-> 0, count |-> 0, pc |-> "idle",
     executed |-> <<>>,
     error |-> NoError, failed_at |-> None]

(***************************************************************************)
(* WorkflowManager.  The operators take the manager's workflows and the    *)
(* files and give them back with what the call returns or raises.          *)
(***************************************************************************)
ValueError == OtherException("ValueError", "already exists")

\* WorkflowManager._save_workflow_sync: the code of save_state
_save_workflow_sync(workflow, files, disk) == save_state(workflow, files, disk)

\* create_workflow as it would be if it did not test whether the name is in use
create_workflow_replaces(manager, files, name, description, disk) ==
    LET workflow == Workflow(name, description, "data_dir")
        saved == _save_workflow_sync(workflow, files, disk)
    IN  [workflows |-> (name :> workflow) @@ manager, files |-> saved.files,
         error |-> saved.error]

\* WorkflowManager.create_workflow
create_workflow(manager, files, name, description, disk) ==
    IF name \in DOMAIN manager
    THEN [workflows |-> manager, files |-> files, error |-> ValueError]
    ELSE LET workflow == Workflow(name, description, "data_dir")
             saved == _save_workflow_sync(workflow, files, disk)
         IN  [workflows |-> (name :> workflow) @@ manager, files |-> saved.files,
              error |-> saved.error]

\* what unlink does to the state file: it removes it, or it raises
Unlinks == {"ok", "unlink_fails"}

\* a function without the argument x
Without(f, x) == [y \in DOMAIN f \ {x} |-> f[y]]

\* WorkflowManager.delete_workflow: the error of unlink is logged and swallowed
delete_workflow(manager, files, name, unlink) ==
    IF name \notin DOMAIN manager
    THEN [workflows |-> manager, files |-> files, value |-> FALSE]
    ELSE [workflows |-> Without(manager, name),
          files |-> IF unlink = "unlink_fails" THEN files ELSE Without(files, name),
          value |-> TRUE]

\* WorkflowManager._load_workflows of a new manager: every state file that
\* load_state can read (json.load raises on a truncated file, load_state
\* returns None and the file is passed over)
_load_workflows(files) ==
    [name \in {n \in DOMAIN files : files[n] # Truncated} |-> load_state(files[name])]

\* the record of a create_workflow or delete_workflow call: what it returned
\* ("True" or "False" for delete_workflow, the workflow's name for
\* create_workflow) or raised
\* and a bit that every call flips
NoManagerCall == [op |-> "", name |-> "", value |-> "", error |-> NoError, seq |-> 0]

ManagerCall(op, name, value, error) ==
    [op |-> op, name |-> name, value |-> value, error |-> error,
     seq |-> 1 - manager_call.seq]

(***************************************************************************)
(* Specification SpecRun: run_plugin on the registries with at most        *)
(* MaxEdges dependency entries over Plugins, for every body behaviour.     *)
(***************************************************************************)
DepEntries == {PluginDependency(n, o) : n \in Names, o \in BOOLEAN}

\* the requires list of p when the entries of edges are declared in that order
RequiresOf(edges, p) ==
    LET From(e) == e[1] = p
        mine == SelectSeq(edges, From)
    IN  [i \in 1..Len(mine) |-> mine[i][2]]

RECURSIVE OrderedGraphs(_, _)
OrderedGraphs(registry, S) ==
    IF S = {}
    THEN {<<>>}
    ELSE LET p == CHOOSE q \in S : TRUE
         IN  {(p :> o) @@ g : o \in Orders(RequiredNames(registry[p])),
                              g \in OrderedGraphs(registry, S \ {p})}

\* bodies that return, or always raise a PluginExecutionError-coded PluginError
BodiesRun == [Plugins -> {[fails |-> 0, err |-> "EXECUTION_ERROR", value |-> 42],
                          [fails |-> Always, err |-> "EXECUTION_ERROR", value |-> 42]}]

InitRun ==
    /\ \E k \in 0..MaxEdges : \E edges \in [1..k -> Plugins \X DepEntries] :
          plugin_instances = [p \in Plugins |-> Plugin(RequiresOf(edges, p), {})]
    /\ dependency_graph \in OrderedGraphs(plugin_instances, Plugins)
    /\ plugin_config = [p \in Plugins |-> "empty"]
    /\ call = NoCall
    /\ detect = NoDetect
    /\ workflows = <<>>
    /\ state_files = <<>>
    /\ run = NoRun
    /\ manager_call = NoManagerCall
    /\ evaluation = NoEvaluation

RunPluginWith(name, bodies) ==
    /\ call = NoCall
    /\ call' = CallRecord(name, "none", NoRetry,
                          run_plugin(name, "none", NoRetry, RunState(bodies), <<>>))
    /\ UNCHANGED <<registry_vars, detect, workflow_vars>>

\* the registries drawn are closed under renaming the plugins, so the requested
\* name is a registered one or the unregistered one
Requested == {"a", "x"}

NextRun == \E name \in Requested, bodies \in BodiesRun : RunPluginWith(name, bodies)

SpecRun == InitRun /\ [][NextRun]_vars


(***************************************************************************)
(* Specification SpecCycle: _detect_circular_dependencies on every         *)
(* dependency-edge map over Names with at most MaxGraphEdges edges, the    *)
(* edge set of every plugin in every iteration order.                      *)
(***************************************************************************)
\* the edge maps whose edges are E
RECURSIVE OrderedEdgeMaps(_, _)
OrderedEdgeMaps(E, S) ==
    IF S = {}
    THEN {<<>>}
    ELSE LET p == CHOOSE q \in S : TRUE
         IN  {(p :> o) @@ g : o \in Orders({e[2] : e \in {d \in E : d[1] = p}}),
                              g \in OrderedEdgeMaps(E, S \ {p})}

InitCycle ==
    /\ \E E \in SUBSET (Names \X Names) :
          /\ Cardinality(E) <= MaxGraphEdges
          /\ \E registered \in {Plugins, Names} :
                /\ \A e \in E : e[1] \in registered
                /\ dependency_graph \in OrderedEdgeMaps(E, registered)
                /\ plugin_instances =
                       [p \in registered |->
                           Plugin([i \in DOMAIN dependency_graph[p] |->
                                      PluginDependency(dependency_graph[p][i], FALSE)], {})]
                /\ plugin_config = [p \in registered |-> "empty"]
    /\ call = NoCall
    /\ detect = NoDetect
    /\ workflows = <<>>
    /\ state_files = <<>>
    /\ run = NoRun
    /\ manager_call = NoManagerCall
    /\ evaluation = NoEvaluation

DetectCycles(name) ==
    /\ detect = NoDetect
    /\ workflows = <<>>
    /\ state_files = <<>>
    /\ run = NoRun
    /\ manager_call = NoManagerCall
    /\ evaluation = NoEvaluation
    /\ detect' = [name |-> name, error |-> _detect_circular_dependencies(name)]
    /\ UNCHANGED <<registry_vars, call, workflow_vars>>

NextCycle == \E name \in Names : DetectCycles(name)

SpecCycle == InitCycle /\ [][NextCycle]_vars

\* m -> n is an edge of the dependency-edge map
Edge(m, n) == n \in Range(GraphDeps(m))

\* the names reachable from the names of S along one or more edges
RECURSIVE ReachFrom(_, _)
ReachFrom(S, seen) ==
    LET next == {n \in Names : \E m \in S : Edge(m, n)} \ seen
    IN  IF next = {} THEN seen ELSE ReachFrom(next, seen \cup next)

Reach(n) == ReachFrom({n}, {})

\* a cycle is reachable from X: X or a name reachable from X reaches itself
CycleReachable(X) == \E n \in Reach(X) \cup {X} : n \in Reach(n)

\* s is a loop n0 -> n1 -> ... -> n0 of the edge map
IsLoop(s) ==
    /\ Len(s) >= 2
    /\ s[1] = s[Len(s)]
    /\ \A i \in 1..(Len(s) - 1) : Edge(s[i], s[i + 1])

\* C5: whenever a cycle is reachable from the name given to
\* _detect_circular_dependencies, it raises a PluginDependencyError whose
\* dependency_cycle is a loop of the edge map: first name = last name and every
\* consecutive pair an edge.
C5_CycleReported ==
    (detect # NoDetect /\ CycleReachable(detect.name)) =>
        /\ detect.error.exc = "PluginDependencyError"
        /\ detect.error.code = "DEPENDENCY_ERROR"
        /\ IsLoop(detect.error.context.dependency_cycle)

\* a loop through three distinct plugins, entered from a fourth, has been reported
C5_Witness ==
    /\ detect # NoDetect
    /\ CycleReachable(detect.name)
    /\ Len(detect.error.context.dependency_cycle) = 4
    /\ detect.name \notin Range(detect.error.context.dependency_cycle)

\* C6: on an edge map without any cycle, _detect_circular_dependencies returns
\* without raising for every name, diamonds included.
C6_NoFalsePositive ==
    (detect # NoDetect /\ \A n \in Names : n \notin Reach(n)) =>
        detect.error = NoError

\* the diamond a -> b, c; b -> x; c -> x has been checked from a
C6_Witness ==
    /\ detect # NoDetect
    /\ detect.name = "a"
    /\ Range(GraphDeps("a")) = {"b", "c"}
    /\ Range(GraphDeps("b")) = {"x"}
    /\ Range(GraphDeps("c")) = {"x"}
    /\ Range(GraphDeps("x")) = {}
    /\ detect.error = NoError


(***************************************************************************)
(* Properties of run_plugin, read off the record of the last call.         *)
(***************************************************************************)
\* the trace positions at which the body reached through path was invoked
Invocations(path) == {k \in DOMAIN call.trace : call.trace[k].path = path}


\* the body at path p runs before the body at path q in a depth-first,
\* left-to-right walk that runs a plugin's dependencies before the plugin
RunsBefore(p, q) ==
    \/ ProperPrefixOf(q, p)
    \/ \E j \in 1..Min2(Len(p), Len(q)) :
          /\ SubSeq(p, 1, j - 1) = SubSeq(q, 1, j - 1)
          /\ p[j] < q[j]

\* the call returned a failure result or raised
CallFailed == call.raised \/ call.value.success = PyBool(FALSE)

\* the error the call raised or reported
CallError == IF call.raised THEN to_dict(call.error) ELSE call.value.error

\* C3: if the body of a required dependency D of the requested plugin P raises a
\* PluginError while run(P) pre-executes it, P's own body is never invoked and
\* run(P) fails with D's error.
C3_RequiredFailureAborts ==
    \A k \in DOMAIN call.trace :
        (/\ Len(call.trace[k].path) = 1
         /\ ~plugin_instances[call.name].requires[call.trace[k].path[1]].optional
         /\ IsPluginError(call.trace[k].error))
        => (/\ Invocations(<<>>) = {}
            /\ CallFailed
            /\ CallError = to_dict(call.trace[k].error))

\* C4, for a plugin P all of whose dependencies are optional: run(P) invokes P's
\* body whatever becomes of the dependencies, and returns success exactly when
\* that body returned.
C4_OptionalIsolation ==
    (/\ call # NoCall
     /\ Registered(call.name)
     /\ \A i \in DOMAIN plugin_instances[call.name].requires :
            plugin_instances[call.name].requires[i].optional)
    => (/\ Invocations(<<>>) # {}
        /\ ~call.raised
        /\ (call.value.success = PyBool(TRUE)) <=>
               (\A k \in Invocations(<<>>) : call.trace[k].error = NoError))

\* C7: in run(P) the bodies run depth-first and left to right over the requires
\* lists, every plugin after its dependencies; when P's body is invoked, every
\* required dependency of P had its body invoked before.
C7_DependencyOrdering ==
    /\ \A k, l \in DOMAIN call.trace :
          k < l => RunsBefore(call.trace[k].path, call.trace[l].path)
    /\ Invocations(<<>>) # {} =>
          \A i \in DOMAIN plugin_instances[call.name].requires :
              ~plugin_instances[call.name].requires[i].optional =>
                  \E k \in Invocations(<<i>>) : \A l \in Invocations(<<>>) : k < l

\* run(a) with a requiring b then c, and b requiring c: the bodies ran in the
\* order c (for b), b, c (for a), a
C7_Witness ==
    /\ call.name = "a"
    /\ ~call.raised
    /\ [k \in DOMAIN call.trace |-> call.trace[k].path] = << <<1, 1>>, <<1>>, <<2>>, <<>> >>
    /\ [k \in DOMAIN call.trace |-> call.trace[k].plugin] = <<"c", "b", "c", "a">>

\* C8: run never raises: whatever the input, it returns a result, and a failure is
\* a result with success = False and an error record.
C8_NeverRaises ==
    call # NoCall =>
        /\ ~call.raised
        /\ call.value.success = PyBool(FALSE) => "error" \in DOMAIN call.value

\* C9: when run(P) raises a dependency error (unknown plugin, missing required
\* dependency, cycle), no plugin body has been invoked during the call.
C9_ResolutionBeforeBodies ==
    (call.raised /\ call.error.exc = "PluginDependencyError") => call.trace = <<>>


\* the entries of the requested plugin's requires list whose run_plugin call
\* came back with a result: those whose body was invoked
PreExecuted ==
    {i \in DOMAIN plugin_instances[call.name].requires : Invocations(<<i>>) # {}}

\* C29: the result of a successful run(P) holds, for every dependency D that
\* was pre-executed, an entry under D's name, next to P's own field, the
\* execution time and success = True.
C29_DependencyResultsByName ==
    (/\ call # NoCall
     /\ ~call.raised
     /\ call.value.success = PyBool(TRUE))
    => /\ \A i \in PreExecuted :
              /\ plugin_instances[call.name].requires[i].name \in DOMAIN call.value
              /\ call.value[plugin_instances[call.name].requires[i].name].t = "dict"
       /\ {"value", "execution_time"} \subseteq DOMAIN call.value

(***************************************************************************)
(* Specification SpecRetry: run_plugin with a retry configuration, on a    *)
(* plugin a without dependencies or with the required dependency b, for    *)
(* bodies that fail a number of times with a retryable or another error.   *)
(***************************************************************************)
RetryConfigs ==
    {RetryConfig(m, b, d, e, c) :
        m \in 1..MaxAttempts, b \in {1, 2}, d \in {5, DefaultMaxDelay},
        e \in {1, DefaultExponentialBase, 3},
        c \in {DefaultRetryCodes, {"AUTHENTICATION_ERROR"}}}

\* the body of a may return a dictionary with "success": False of its own
BodiesRetry ==
    {("a" :> IF s THEN [fails |-> f, err |-> e, value |-> 42]
                  ELSE [fails |-> f, err |-> e, value |-> 42, success |-> FALSE])
        @@ ("b" :> [fails |-> g, err |-> "EXECUTION_ERROR", value |-> 7]) :
        f \in 0..MaxAttempts \cup {Always},
        e \in {"NETWORK_ERROR", "EXECUTION_ERROR", "AUTHENTICATION_ERROR", "RuntimeError"},
        g \in {0, Always},
        s \in BOOLEAN}

InitRetry ==
    /\ plugin_instances \in
          {("a" :> Plugin(reqs, {})) @@ ("b" :> Plugin(<<>>, {})) :
              reqs \in {<<>>, <<PluginDependency("b", FALSE)>>}}
    /\ dependency_graph \in OrderedGraphs(plugin_instances, {"a", "b"})
    /\ plugin_config = [p \in {"a", "b"} |-> "empty"]
    /\ call = NoCall
    /\ detect = NoDetect
    /\ workflows = <<>>
    /\ state_files = <<>>
    /\ run = NoRun
    /\ manager_call = NoManagerCall
    /\ evaluation = NoEvaluation

RunPluginRetry(name, bodies, retry_config) ==
    /\ call = NoCall
    /\ call' = CallRecord(name, "none", retry_config,
                          run_plugin(name, "none", retry_config, RunState(bodies), <<>>))
    /\ UNCHANGED <<registry_vars, detect, workflow_vars>>

NextRetry ==
    \E bodies \in BodiesRetry, retry_config \in RetryConfigs \cup {NoRetry} :
        RunPluginRetry("a", bodies, retry_config)

SpecRetry == InitRetry /\ [][NextRetry]_vars

\* C10: the i-th delay slept in a call is the one before attempt k = i + 1 and
\* equals min(base_delay * exponential_base^(k - 2), max_delay); the delays never
\* exceed max_delay and never decrease; with base_delay 1, exponential_base 2 and
\* max_delay 30 they are 1, 2, 4, 8, 16 and then 30 before attempt 7.
C10_RetryBackoff ==
    LET rc == call.retry_config
    IN  /\ \A i \in DOMAIN call.delays :
              /\ i + 1 <= rc.max_attempts
              /\ \E k \in 2..rc.max_attempts :
                    /\ k = i + 1
                    /\ call.delays[i] =
                          Min2(rc.base_delay * Pow(rc.exponential_base, k - 2), rc.max_delay)
              /\ call.delays[i] <= rc.max_delay
              /\ \A j \in 1..(i - 1) : call.delays[j] <= call.delays[i]
        /\ (rc.base_delay = 1 /\ rc.exponential_base = 2 /\ rc.max_delay = 30) =>
              \A i \in DOMAIN call.delays : call.delays[i] = <<1, 2, 4, 8, 16, 30, 30>>[i]

\* seven attempts were made under base_delay 1, exponential_base 2, max_delay 30:
\* the delay before attempt 7 was clamped to 30
C10_Witness ==
    /\ call.retry_config.max_attempts = 7
    /\ Len(call.trace) = 7
    /\ call.delays = <<1, 2, 4, 8, 16, 30>>

\* the invocations of the requested plugin's own body, in order
OwnAttempts == [k \in 1..Cardinality(Invocations(<<>>)) |->
                   call.trace[CHOOSE l \in Invocations(<<>>) :
                                 Cardinality({m \in Invocations(<<>>) : m <= l}) = k]]

\* the error's kind is one of the retryable kinds of the policy passed to the call
RetryableUnder(e, policy) == IsPluginError(e) /\ e.code \in policy.retry_codes

\* C11: with a retry policy the body is invoked at most max_attempts times; if
\* every attempt fails with an error retryable under the policy it is invoked
\* exactly max_attempts times and the failure is an ExecutionError carrying
\* attempts = max_attempts and the last attempt's error record; an attempt that
\* fails with a plugin error not retryable under the policy is the last one and
\* its error is the failure; a successful attempt is the last one and the result
\* is a success.
C11_RetryExhaustion ==
    (call # NoCall /\ call.retry_config # NoRetry /\ ~call.raised /\ OwnAttempts # <<>>) =>
        LET n == Len(OwnAttempts)
            policy == call.retry_config
        IN  /\ n <= policy.max_attempts
            /\ (\A k \in 1..n : RetryableUnder(OwnAttempts[k].error, policy)) =>
                  /\ n = policy.max_attempts
                  /\ call.value.success = PyBool(FALSE)
                  /\ call.value.error.d.code = "EXECUTION_ERROR"
                  /\ call.value.error.d.context.attempts = policy.max_attempts
                  /\ call.value.error.d.context.last_error = to_dict(OwnAttempts[n].error)
            /\ \A k \in 1..n :
                  (/\ IsPluginError(OwnAttempts[k].error)
                   /\ ~RetryableUnder(OwnAttempts[k].error, policy)) =>
                      /\ k = n
                      /\ call.value.success = PyBool(FALSE)
                      /\ call.value.error = to_dict(OwnAttempts[k].error)
            /\ \A k \in 1..n :
                  OwnAttempts[k].error = NoError =>
                      k = n /\ call.value.success = PyBool(TRUE)

\* C12: a body whose first attempt fails with a plugin error is invoked again
\* if and only if a retry policy was passed (one that allows a second attempt)
\* and the error's kind is in that policy's retry_codes; otherwise the body is
\* invoked exactly once and that error is the failure.
C12_PolicyClassification ==
    (/\ call # NoCall
     /\ ~call.raised
     /\ OwnAttempts # <<>>
     /\ IsPluginError(OwnAttempts[1].error)) =>
        LET e == OwnAttempts[1].error
            policy == call.retry_config
            retryable == policy # NoRetry /\ RetryableUnder(e, policy)
        IN  /\ (policy = NoRetry \/ policy.max_attempts >= 2) =>
                  (Len(OwnAttempts) > 1 <=> retryable)
            /\ ~retryable =>
                  /\ Len(OwnAttempts) = 1
                  /\ call.value.success = PyBool(FALSE)
                  /\ call.value.error = to_dict(e)

\* C28: in a call with a retry policy the body of every dependency is invoked
\* once, before the first attempt of the requested plugin's body; the attempts
\* that follow invoke that body only.
C28_OnlyLeafRetried ==
    \A k \in DOMAIN call.trace :
        call.trace[k].path # <<>> =>
            /\ Cardinality(Invocations(call.trace[k].path)) = 1
            /\ \A l \in Invocations(<<>>) : k < l

\* run(a) with a requiring b under a policy: b's body ran once and a's body ran
\* three times after it
C28_Witness ==
    /\ call.retry_config # NoRetry
    /\ Len(call.trace) = 4
    /\ [k \in DOMAIN call.trace |-> call.trace[k].plugin] = <<"b", "a", "a", "a">>
    /\ Len(call.delays) = 2

\* the invocations of the requested plugin's body that returned
OwnReturns == {k \in Invocations(<<>>) : call.trace[k].returned # PyNone}

\* C39: the success flag of the result of run reflects only whether the body
\* raised: when the body of the requested plugin returned, the result has
\* success = True, whatever "success" the body's dictionary held; a result
\* with success = False comes from the handler of the body's exception only:
\* the body was invoked and never returned, and the result holds the error.
C39_SuccessReflectsRaise ==
    (call # NoCall /\ ~call.raised) =>
        /\ OwnReturns # {} => call.value.success = PyBool(TRUE)
        /\ call.value.success = PyBool(FALSE) =>
              /\ Invocations(<<>>) # {}
              /\ OwnReturns = {}
              /\ "error" \in DOMAIN call.value

\* the body returned a dictionary with "success": False at its second attempt
\* and the result of the call has success = True
C39_Witness ==
    /\ call # NoCall
    /\ ~call.raised
    /\ Len(call.delays) = 1
    /\ \E k \in OwnReturns : call.trace[k].returned.d.success = PyBool(FALSE)
    /\ call.value.success = PyBool(TRUE)

(***************************************************************************)
(* Specification SpecConfig: run_plugin calls with a config argument, one  *)
(* after the other, on a plugin a whose validator rejects the config "c2"  *)
(* and which requires b, on b, and on the unregistered name x.             *)
(***************************************************************************)
BodiesConfig ==
    [{"a", "b"} -> {[fails |-> 0, err |-> "EXECUTION_ERROR", value |-> 42],
                    [fails |-> Always, err |-> "EXECUTION_ERROR", value |-> 42]}]

InitConfig ==
    /\ plugin_instances = ("a" :> Plugin(<<PluginDependency("b", FALSE)>>, {"c2"}))
                          @@ ("b" :> Plugin(<<>>, {}))
    /\ dependency_graph = ("a" :> <<"b">>) @@ ("b" :> <<>>)
    /\ plugin_config = ("a" :> "empty") @@ ("b" :> "empty")
    /\ call = NoCall
    /\ detect = NoDetect
    /\ workflows = <<>>
    /\ state_files = <<>>
    /\ run = NoRun
    /\ manager_call = NoManagerCall
    /\ evaluation = NoEvaluation

\* run_plugin(name, tab, account, config)
RunPluginConfig(name, config, bodies) ==
    /\ LET r == run_plugin(name, config, NoRetry, RunState(bodies), <<>>)
       IN  /\ call' = CallRecord(name, config, NoRetry, r)
           /\ plugin_config' = r.st.config
    /\ UNCHANGED <<plugin_instances, dependency_graph, detect, workflow_vars>>

NextConfig ==
    \E name \in {"a", "b", "x"}, config \in Configs, bodies \in BodiesConfig :
        RunPluginConfig(name, config, bodies)

SpecConfig == InitConfig /\ [][NextConfig]_vars

\* C30: a call with a config (the empty dict included) leaves that config as
\* the plugin's stored config; when the plugin's validator rejects the config
\* the call raises a PluginConfigError, the stored configs are unchanged and
\* no body was invoked.
C30_ConfigApplication ==
    [][(call' # call /\ call'.config # "none" /\ Registered(call'.name)) =>
          IF call'.config \in plugin_instances[call'.name].invalid
          THEN /\ call'.raised
               /\ call'.error.exc = "PluginConfigError"
               /\ plugin_config' = plugin_config
               /\ call'.trace = <<>>
          ELSE plugin_config'[call'.name] = call'.config]_vars

(***************************************************************************)
(* Specification Spec: the workflow engine.  The registry holds a plugin   *)
(* "a" without dependencies, whose validator rejects the config "c2", and  *)
(* a plugin "b" that requires "a"; "x" is registered later, or never.      *)
(* The caller drives one Workflow.run call at a time and adds steps only   *)
(* between calls.  The storage works.                                      *)
(***************************************************************************)
WorkflowNames == {"w"}

\* the arguments of add_step: plugin_name, config, condition
StepInputs ==
    {<<"a", "none", NoCondition>>,
     <<"a", "c2", NoCondition>>,
     <<"b", "none", StepCondition("a", "value", "eq", PyInt(42))>>,
     <<"a", "none", StepCondition("a", "value", "eq", PyInt(0))>>,
     <<"x", "none", StepCondition("a", "value", "gt", PyStr(<<"4">>))>>,
     <<"x", "none", NoCondition>>}

\* bodies that return a value (that of "x" may add the current time to its
\* result) or always raise a PluginError
BodiesWorkflow ==
    {("a" :> ba) @@ ("b" :> bb) @@ ("x" :> bx) :
        bx \in {[fails |-> 0, err |-> "EXECUTION_ERROR", value |-> 42],
                [fails |-> 0, err |-> "EXECUTION_ERROR", value |-> 42, stamp |-> Now]},
        ba \in {[fails |-> 0, err |-> "EXECUTION_ERROR", value |-> 42],
                [fails |-> 0, err |-> "EXECUTION_ERROR", value |-> 0],
                [fails |-> Always, err |-> "EXECUTION_ERROR", value |-> 42]},
        bb \in {[fails |-> 0, err |-> "EXECUTION_ERROR", value |-> 42],
                [fails |-> Always, err |-> "NETWORK_ERROR", value |-> 42]}}

Init ==
    /\ plugin_instances = ("a" :> Plugin(<<>>, {"c2"}))
                          @@ ("b" :> Plugin(<<PluginDependency("a", FALSE)>>, {}))
    /\ dependency_graph = ("a" :> <<>>) @@ ("b" :> <<"a">>)
    /\ plugin_config = ("a" :> "empty") @@ ("b" :> "empty")
    /\ call = NoCall
    /\ detect = NoDetect
    /\ workflows = <<>>
    /\ state_files = <<>>
    /\ run = NoRun
    /\ manager_call = NoManagerCall
    /\ evaluation = NoEvaluation

\* PluginManager._register_plugin
RegisterPlugin(name, plugin) ==
    /\ ~Registered(name)
    /\ plugin_instances' = (name :> plugin) @@ plugin_instances
    /\ dependency_graph' \in {(name :> o) @@ dependency_graph : o \in Orders(RequiredNames(plugin))}
    /\ plugin_config' = (name :> "empty") @@ plugin_config
    /\ UNCHANGED <<call, detect, workflow_vars>>

\* WorkflowManager.create_workflow(name, description)
CreateWorkflow(name, description, disk) ==
    /\ LET c == create_workflow(workflows, state_files, name, description, disk)
       IN  /\ workflows' = c.workflows
           /\ state_files' = c.files
           /\ manager_call' = ManagerCall("create_workflow", name,
                                          IF c.error = NoError THEN name ELSE "", c.error)
    /\ UNCHANGED <<registry_vars, call, detect, run, evaluation>>

\* create_workflow under a name the manager does not hold
CreateNew(name, description) ==
    /\ name \notin DOMAIN workflows
    /\ CreateWorkflow(name, description, "ok")

\* add_step as it would be if it saved the workflow
AddStep_saves(name, input) ==
    /\ name \in DOMAIN workflows
    /\ run.pc # "await"
    /\ Len(workflows[name].steps) < MaxSteps
    /\ workflows' = [workflows EXCEPT ![name] = add_step(@, input[1], input[2], input[3])]
    /\ state_files' = save_state(workflows'[name], state_files, "ok").files
    /\ UNCHANGED <<registry_vars, call, detect, run, manager_call, evaluation>>

\* Workflow.add_step
AddStep(name, input) ==
    /\ name \in DOMAIN workflows
    /\ run.pc # "await"
    /\ Len(workflows[name].steps) < MaxSteps
    /\ workflows' = [workflows EXCEPT ![name] = add_step(@, input[1], input[2], input[3])]
    /\ UNCHANGED <<registry_vars, call, detect, state_files, run, manager_call, evaluation>>

\* the call of Workflow.run, up to its first await or its end
Begin(name, resume_from, disk) ==
    /\ name \in DOMAIN workflows
    /\ run.pc # "await"
    /\ run.count < MaxRuns
    /\ LET p == run_from(workflows[name], state_files, resume_from, disk)
       IN  /\ workflows' = [workflows EXCEPT ![name] = p.self]
           /\ state_files' = p.files
           /\ run' = [name |-> name, resume_from |-> resume_from,
                      length |-> Len(workflows[name].steps), count |-> run.count + 1,
                      pc |-> p.pc, executed |-> <<>>, error |-> p.error,
                      failed_at |-> IF run.pc = "raised" /\ run.name = name
                                    THEN workflows[name].current_step ELSE None]
    /\ UNCHANGED <<registry_vars, call, detect, manager_call, evaluation>>

\* Workflow.run(plugin_manager, tab, account, resume_from)
StartRun(name, resume_from, disk) ==
    /\ name \in DOMAIN workflows
    /\ resume_from <= Len(workflows[name].steps)
    /\ Begin(name, resume_from, disk)

\* WorkflowManager.run_workflow(name, plugin_manager, tab, account, resume)
RunWorkflow(name, resume, disk) ==
    /\ name \in DOMAIN workflows
    /\ Begin(name, IF resume THEN workflows[name].current_step ELSE None, disk)

\* the exception raised by the body of the plugin run_plugin was called for
OwnBodyError(trace) ==
    LET own == {k \in DOMAIN trace : trace[k].path = <<>>}
    IN  IF own = {} THEN NoError ELSE trace[CHOOSE k \in own : TRUE].error

\* the plugins whose body a run_plugin call for a name of S can invoke: those
\* the requires lists lead to
RECURSIVE Callees(_, _)
Callees(S, seen) ==
    LET next == UNION {{plugin_instances[m].requires[i].name :
                           i \in DOMAIN plugin_instances[m].requires} :
                       m \in S \cap DOMAIN plugin_instances} \ seen
    IN  IF next = {} THEN seen ELSE Callees(next, seen \cup next)

\* a body that returns
DefaultBody == [fails |-> 0, err |-> "EXECUTION_ERROR", value |-> 42]

\* run_plugin comes back and Workflow.run goes on to its next await or its end;
\* the bodies of the plugins the call cannot invoke are left at DefaultBody
FinishStep(bodies, disk) ==
    /\ run.pc = "await"
    /\ LET name == workflows[run.name].steps[workflows[run.name].current_step + 1].plugin_name
       IN  \A q \in DOMAIN bodies \ Callees({name}, {name}) : bodies[q] = DefaultBody
    /\ LET self == workflows[run.name]
           step == self.steps[self.current_step + 1]
           r == run_plugin(step.plugin_name, step.config, NoRetry, RunState(bodies), <<>>)
           p == run_resumed(self, state_files, r, disk)
       IN  /\ workflows' = [workflows EXCEPT ![run.name] = p.self]
           /\ state_files' = p.files
           /\ plugin_config' = r.st.config
           /\ run' = [run EXCEPT !.pc = p.pc, !.error = p.error,
                                 !.executed = Append(@, [step |-> self.current_step,
                                                         body_error |-> OwnBodyError(r.st.trace),
                                                         raised |-> r.raised])]
    /\ UNCHANGED <<plugin_instances, dependency_graph, call, detect, manager_call, evaluation>>

\* the caller's timeout cancels the call while it awaits run_plugin
CancelRun(disk) ==
    /\ run.pc = "await"
    /\ LET p == run_cancelled(workflows[run.name], state_files, disk)
       IN  /\ workflows' = [workflows EXCEPT ![run.name] = p.self]
           /\ state_files' = p.files
           /\ run' = [run EXCEPT !.pc = p.pc, !.error = p.error]
    /\ UNCHANGED <<registry_vars, call, detect, manager_call, evaluation>>

Next ==
    \/ RegisterPlugin("x", Plugin(<<>>, {}))
    \/ \E name \in WorkflowNames : CreateNew(name, "d")
    \/ \E name \in WorkflowNames, input \in StepInputs : AddStep(name, input)
    \/ \E name \in WorkflowNames, resume_from \in {None} \cup (0..MaxSteps),
          disk \in WorkingDisk : StartRun(name, resume_from, disk)
    \/ \E name \in WorkflowNames, resume \in BOOLEAN, disk \in WorkingDisk :
          RunWorkflow(name, resume, disk)
    \/ \E bodies \in BodiesWorkflow, disk \in WorkingDisk : FinishStep(bodies, disk)
    \/ \E disk \in WorkingDisk : CancelRun(disk)

Spec == Init /\ [][Next]_vars

(***************************************************************************)
(* Properties of Workflow.run.                                             *)
(***************************************************************************)
\* the workflow of the run in flight or last finished
Running == workflows[run.name]

\* the plugin of the k-th executed step failed: its body raised a plugin error
BodyFailed(k) == IsPluginError(run.executed[k].body_error)

\* the plugin of the k-th executed step failed: its body raised, or run_plugin did
StepFailed(k) == BodyFailed(k) \/ run.executed[k].raised

\* C1: when the plugin body of a step fails with a plugin error, the step is
\* Failed with that error recorded, the workflow is Failed, the run has raised,
\* no later step was executed, and in a first run every later step is Pending
C1_FailureStopsRun ==
    \A k \in DOMAIN run.executed :
        BodyFailed(k) =>
            LET i == run.executed[k].step + 1
            IN  /\ Running.steps[i].status = "failed"
                /\ Running.steps[i].error = to_dict(run.executed[k].body_error)
                /\ Running.status = "failed"
                /\ run.pc = "raised"
                /\ k = Len(run.executed)
                /\ run.count = 1 /\ run.resume_from = None =>
                      \A j \in (i + 1)..run.length :
                          Running.steps[j].status = "pending"

\* C2: a run in which the plugin of step i fails raises and leaves
\* current_step = i; and a run with resume_from = i after a run that failed at
\* i, in which step i and every later step is executed and succeeds, the steps
\* before i being Completed, starts with step i, executes no step before i, and
\* returns with every step Completed, current_step = len(steps) and status
\* Completed
C2_ResumeCorrectness ==
    /\ \A k \in DOMAIN run.executed :
          StepFailed(k) =>
              run.pc = "raised" /\ Running.current_step = run.executed[k].step
    /\ (/\ run.pc = "returned"
        /\ run.failed_at # None
        /\ run.resume_from = run.failed_at
        /\ \A k \in DOMAIN run.executed : ~StepFailed(k)
        /\ {run.executed[k].step : k \in DOMAIN run.executed}
              = run.failed_at..(run.length - 1)
        /\ \A j \in 1..run.failed_at : Running.steps[j].status = "completed")
       => /\ run.executed # <<>> => run.executed[1].step = run.failed_at
          /\ \A k \in DOMAIN run.executed : run.executed[k].step >= run.failed_at
          /\ \A j \in 1..run.length : Running.steps[j].status = "completed"
          /\ Running.current_step = run.length
          /\ Running.status = "completed"

\* a step of Workflow.run that begins a call, and one in which run_plugin has
\* come back without raising: both go through the loop from a cursor on
Begins == run.pc # "await" /\ run'.count = run.count + 1

Resumes ==
    /\ run.pc = "await"
    /\ Len(run'.executed) = Len(run.executed) + 1
    /\ ~run'.executed[Len(run'.executed)].raised

\* the cursor from which such a step goes through the loop
LoopStart ==
    IF Begins
    THEN IF run'.resume_from = None
         THEN workflows[run'.name].current_step
         ELSE run'.resume_from
    ELSE workflows[run.name].current_step + 1

\* C13: the loop passes over steps in index order; every step it passes over has
\* a condition that is false against the results so far and is Skipped, its
\* plugin not run; the step it stops at has no condition or a true one and is
\* the one executed next; when no step is left the call returns with
\* current_step = len(steps) and status Completed; executed steps come in
\* index order.
C13_SequencingAndSkip ==
    [][(Begins \/ Resumes) =>
          LET after == workflows'[run'.name]
              steps == after.steps
              stop == after.current_step
          IN  /\ LoopStart <= stop /\ stop <= Len(steps)
              /\ \A j \in (LoopStart + 1)..stop :
                    /\ steps[j].status = "skipped"
                    /\ steps[j].condition # NoCondition
                    /\ evaluate(steps[j].condition, after.results) = Truth(FALSE)
                    /\ run'.executed = <<>> \/ run'.executed[Len(run'.executed)].step < j - 1
              /\ run'.pc = "await" =>
                    /\ stop < Len(steps)
                    /\ steps[stop + 1].status = "running"
                    /\ \/ steps[stop + 1].condition = NoCondition
                       \/ evaluate(steps[stop + 1].condition, after.results) = Truth(TRUE)
              /\ run'.pc = "returned" =>
                    /\ stop = Len(steps)
                    /\ after.status = "completed"
              /\ run'.pc = "raised" =>
                    /\ stop < Len(steps)
                    /\ steps[stop + 1].condition # NoCondition
                    /\ evaluate(steps[stop + 1].condition, after.results).raised
              /\ Resumes =>
                    /\ run'.executed[Len(run'.executed)].step = LoopStart - 1
                    /\ steps[LoopStart].status = "completed"
              /\ \A k, l \in DOMAIN run'.executed :
                    k < l => run'.executed[k].step < run'.executed[l].step
      ]_vars

\* the run of [A, B if A.value == 42, C if A.value == 0] with A returning 42:
\* A and B Completed, C Skipped, current_step 3, status Completed
C13_Witness ==
    /\ run.pc = "returned"
    /\ Len(Running.steps) = 3
    /\ [j \in 1..3 |-> Running.steps[j].condition] =
          <<NoCondition, StepCondition("a", "value", "eq", PyInt(42)),
            StepCondition("a", "value", "eq", PyInt(0))>>
    /\ [j \in 1..3 |-> Running.steps[j].status] = <<"completed", "completed", "skipped">>
    /\ Running.results["a"].value = PyInt(42)
    /\ Running.current_step = 3
    /\ Running.status = "completed"

\* the indices of the steps whose plugin the call ran
ExecutedSteps == {run.executed[k].step : k \in DOMAIN run.executed}

\* C14: a call without resume_from starts from step 0: when it has returned,
\* every step of the workflow was executed by this call or is Skipped.
C14_RunWithoutResume ==
    (run.pc = "returned" /\ run.resume_from = None) =>
        \A j \in 1..run.length :
            (j - 1) \in ExecutedSteps \/ Running.steps[j].status = "skipped"

\* a step of the workflow of the call has become Completed, Failed or Skipped
StepSettles ==
    /\ run'.name \in DOMAIN workflows
    /\ run'.name \in DOMAIN workflows'
    /\ \E j \in DOMAIN workflows[run'.name].steps :
          /\ workflows'[run'.name].steps[j].status # workflows[run'.name].steps[j].status
          /\ workflows'[run'.name].steps[j].status \in {"completed", "failed", "skipped"}

\* the workflow of the call as it is before the step in flight, if any, was begun
BeforeNextStep ==
    LET after == workflows'[run'.name]
        i == after.current_step + 1
    IN  IF run'.pc = "await"
        THEN [after EXCEPT !.steps[i] = workflows[run'.name].steps[i]]
        ELSE after

\* C15: whenever a stretch of Workflow.run has made a step Completed, Failed or
\* Skipped, the persisted record equals the workflow in memory (steps, results,
\* cursor, status) before the next step is begun.
C15_PersistedAfterEveryChange ==
    [][StepSettles =>
          /\ run'.name \in DOMAIN state_files'
          /\ state_files'[run'.name] = dump_state(model_dump(BeforeNextStep))]_vars

\* C16: when the state file of a workflow W is the one save_state writes for
\* W, load_state on it yields a workflow equal to W in its steps (plugin name,
\* config, condition, status, result, error, start and end time), status,
\* cursor and results, and saving the loaded workflow writes the same file.
C16_RoundTrip ==
    \A name \in DOMAIN workflows :
        LET W == workflows[name]
        IN  (name \in DOMAIN state_files /\ state_files[name] = dump_state(model_dump(W))) =>
                LET loaded == load_state(state_files[name])
                IN  /\ loaded.steps = W.steps
                    /\ loaded.status = W.status
                    /\ loaded.current_step = W.current_step
                    /\ loaded.results = W.results
                    /\ dump_state(model_dump(loaded)) = state_files[name]

\* the call was cancelled while a step was in flight
Cancelled == run.pc = "raised" /\ run.error = OtherException("CancelledError", "")

\* C17: when a call is cancelled while step i is in flight, current_step stays
\* i in memory and the persisted cursor is not past i; and a call that resumes
\* from the cursor a cancelled call left begins step i again: the step is
\* Running, at the await of run_plugin, with the cursor at i.
C17_CancelIsFailureAtStep ==
    [][LET i == workflows[run.name].current_step
       IN  /\ (run.pc = "await" /\ Cancelled') =>
                 /\ workflows'[run.name].current_step = i
                 /\ run.name \in DOMAIN state_files'
                 /\ state_files'[run.name].current_step <= i
                 /\ load_state(state_files'[run.name]).current_step = i
           /\ (Cancelled /\ Begins /\ run'.name = run.name /\ run'.resume_from = i) =>
                 /\ run'.pc = "await"
                 /\ workflows'[run.name].current_step = i
                 /\ workflows'[run.name].steps[i + 1].status = "running"
                 /\ workflows'[run.name].steps[i + 1].plugin_name
                       = workflows[run.name].steps[i + 1].plugin_name
      ]_vars

\* the second step of a workflow was in flight when the call was cancelled
C17_Witness ==
    /\ Cancelled
    /\ Running.current_step = 1
    /\ Running.steps[2].status = "running"
    /\ state_files[run.name].current_step = 1

RunningSteps(name) ==
    {j \in DOMAIN workflows[name].steps : workflows[name].steps[j].status = "running"}

\* the cursor at which the call began, as far as the record of the call tells
FirstVisited ==
    IF run.resume_from # None THEN run.resume_from
    ELSE IF run.executed # <<>> THEN run.executed[1].step
    ELSE Running.current_step

\* the steps the call in flight has visited are Completed, with the result of
\* their plugin in the map, or Skipped
VisitedSettled ==
    run.pc = "await" =>
        \A j \in (FirstVisited + 1)..Running.current_step :
            \/ Running.steps[j].status = "skipped"
            \/ /\ Running.steps[j].status = "completed"
               /\ Running.steps[j].plugin_name \in DOMAIN Running.results

\* C23: at every moment at most one step of a workflow has status Running, and
\* while a step is in flight every step the call visited before it is Completed,
\* its plugin's result in the results map, or Skipped.
C23_SequentialSteps ==
    /\ \A name \in DOMAIN workflows : Cardinality(RunningSteps(name)) <= 1
    /\ VisitedSettled

\* the state file of the workflow of the call is the one written for the
\* workflow as it is after the step
Persisted ==
    /\ run'.name \in DOMAIN state_files'
    /\ state_files'[run'.name] = dump_state(model_dump(workflows'[run'.name]))

C25_OneResultPerStep ==
    (/\ run.pc = "returned"
     /\ run.length = 2
     /\ ExecutedSteps = {0, 1})
    => Cardinality(DOMAIN Running.results) = 2

\* run_plugin has come back for the step in flight
PluginCameBack == run.pc = "await" /\ Len(run'.executed) = Len(run.executed) + 1

C32_AddStepAppendOnly ==
    [][\A w \in DOMAIN workflows \cap DOMAIN workflows' :
          Len(workflows'[w].steps) # Len(workflows[w].steps) =>
              LET old == workflows[w]
                  new == workflows'[w]
                  n == Len(old.steps)
              IN  /\ Len(new.steps) = n + 1
                  /\ SubSeq(new.steps, 1, n) = old.steps
                  /\ \E input \in StepInputs :
                        /\ new.steps[n + 1].plugin_name = input[1]
                        /\ new.steps[n + 1].config = input[2]
                        /\ new.steps[n + 1].condition = input[3]
                  /\ new.steps[n + 1].status = "pending"
                  /\ new.steps[n + 1].result = PyNone
                  /\ new.steps[n + 1].error = PyNone
                  /\ new.current_step = old.current_step
                  /\ new.status = old.status
                  /\ new.results = old.results]_vars

\* a step has been added to a workflow whose run had completed its first step
C32_Witness ==
    \E w \in DOMAIN workflows :
        /\ workflows[w].status = "completed"
        /\ workflows[w].current_step = Len(workflows[w].steps) - 1
        /\ workflows[w].current_step >= 1
        /\ workflows[w].steps[1].status = "completed"
        /\ workflows[w].results # <<>>
        /\ workflows[w].steps[Len(workflows[w].steps)].status = "pending"

(***************************************************************************)
(* Specification SpecStore: the manager and the engine on a storage that   *)
(* can fail.  One manager at a time holds the storage root; the caller     *)
(* creates, deletes and reloads between the calls of Workflow.run.         *)
(***************************************************************************)
\* the caller describes a workflow as "d", and as "e" when the name is in use
Description(name) == IF name \in DOMAIN workflows THEN "e" ELSE "d"

StepInputsStore ==
    {<<"a", "none", NoCondition>>,
     <<"x", "none", NoCondition>>}

\* add_step before the first call of Workflow.run, while the workflow has fewer
\* than MaxStepsStore steps
AddStepStore(name, input) ==
    /\ name \in DOMAIN workflows
    /\ run.count = 0
    /\ Len(workflows[name].steps) < MaxStepsStore
    /\ AddStep(name, input)

BodiesStore ==
    {("a" :> ba) @@ ("b" :> [fails |-> 0, err |-> "EXECUTION_ERROR", value |-> 42])
                 @@ ("x" :> [fails |-> 0, err |-> "EXECUTION_ERROR", value |-> 42]) :
        ba \in {[fails |-> 0, err |-> "EXECUTION_ERROR", value |-> 42],
                [fails |-> Always, err |-> "EXECUTION_ERROR", value |-> 42]}}

\* WorkflowManager.delete_workflow(name)
DeleteWorkflow(name, unlink) ==
    /\ run.pc # "await"
    /\ LET d == delete_workflow(workflows, state_files, name, unlink)
       IN  /\ workflows' = d.workflows
           /\ state_files' = d.files
           /\ manager_call' = ManagerCall("delete_workflow", name,
                                          IF d.value THEN "True" ELSE "False", NoError)
    /\ UNCHANGED <<registry_vars, call, detect, run, evaluation>>

\* WorkflowManager(data_dir): a new manager on the same storage root
NewManager ==
    /\ run.pc # "await"
    /\ workflows' = _load_workflows(state_files)
    /\ UNCHANGED <<registry_vars, call, detect, state_files, run, manager_call, evaluation>>

NextStore ==
    \/ \E name \in WorkflowNames, disk \in Disks :
          CreateWorkflow(name, Description(name), disk)
    \/ \E name \in WorkflowNames, input \in StepInputsStore : AddStepStore(name, input)
    \/ \E name \in WorkflowNames, resume \in BOOLEAN, disk \in Disks :
          RunWorkflow(name, resume, disk)
    \/ \E bodies \in BodiesStore, disk \in Disks : FinishStep(bodies, disk)
    \/ \E disk \in Disks : CancelRun(disk)
    \/ \E name \in WorkflowNames, unlink \in Unlinks : DeleteWorkflow(name, unlink)
    \/ NewManager

SpecStore == Init /\ [][NextStore]_vars

\* the step is a call of add_step on the workflow w
AddsStep(w) ==
    \E input \in StepInputsStore :
        workflows' = [workflows EXCEPT ![w] = add_step(@, input[1], input[2], input[3])]

\* C37: add_step changes the workflow in memory only: the state files are as
\* they were, and the workflow a manager constructed on the same storage root
\* right after the call loads from them does not hold the added step.
C37_AddStepNotDurable ==
    [][\A w \in DOMAIN workflows :
          AddsStep(w) =>
              /\ state_files' = state_files
              /\ w \in DOMAIN _load_workflows(state_files') =>
                    /\ _load_workflows(state_files')[w] # workflows'[w]
                    /\ Len(_load_workflows(state_files')[w].steps)
                          <= Len(workflows[w].steps)]_vars

\* two steps were added to a workflow whose state file, written by
\* create_workflow, holds none
C37_Witness ==
    /\ run.count = 0
    /\ "w" \in DOMAIN workflows
    /\ Len(workflows["w"].steps) = 2
    /\ "w" \in DOMAIN _load_workflows(state_files)
    /\ _load_workflows(state_files)["w"].steps = <<>>

\* the step is a stretch of Workflow.run in which run_plugin came back
Returns == run.pc = "await" /\ Len(run'.executed) = Len(run.executed) + 1

\* what run_plugin can have come back with in such a step
PluginOutcomes ==
    LET self == workflows[run.name]
        step == self.steps[self.current_step + 1]
        last == run'.executed[Len(run'.executed)]
        all == {run_plugin(step.plugin_name, step.config, NoRetry, RunState(bodies), <<>>) :
                   bodies \in BodiesStore}
    IN  {r \in all : r.raised = last.raised /\ OwnBodyError(r.st.trace) = last.body_error}

\* where the stretch of Workflow.run that this step takes ends on a storage
\* that works
WorkingStoreOutcomes ==
    IF Begins
    THEN {run_from(workflows[run'.name], state_files, run'.resume_from, "ok")}
    ELSE IF Returns
    THEN {run_resumed(workflows[run.name], state_files, r, "ok") : r \in PluginOutcomes}
    ELSE {run_cancelled(workflows[run.name], state_files, "ok")}

\* C18: whatever the storage does during a stretch of Workflow.run, the stretch
\* ends as it does on a storage that works: the same workflow in memory (the
\* steps' status, result and error, the cursor, the status), the same position
\* (at the next await, returned or raised) and the same exception raised.
C18_SaveFailuresSwallowed ==
    [][run' # run =>
          \E p \in WorkingStoreOutcomes :
              /\ p.self = workflows'[run'.name]
              /\ p.pc = run'.pc
              /\ p.error = run'.error]_vars

\* the step is a call of the manager's operation op on name
ManagerCalled(op, name) ==
    /\ manager_call'.seq # manager_call.seq
    /\ manager_call'.op = op
    /\ manager_call'.name = name

\* C19: create_workflow under a name the manager holds raises ValueError and
\* leaves the manager's workflows and the state files as they were.
C19_DuplicateCreateFails ==
    [][\A name \in WorkflowNames :
          (ManagerCalled("create_workflow", name) /\ name \in DOMAIN workflows) =>
              /\ manager_call'.error = ValueError
              /\ workflows' = workflows
              /\ state_files' = state_files]_vars

\* a second create_workflow("w") has raised; "w" has steps, has been run to the
\* end, and its state file is the one written for it
C19_Witness ==
    /\ manager_call.op = "create_workflow"
    /\ manager_call.error = ValueError
    /\ "w" \in DOMAIN workflows
    /\ workflows["w"].steps # <<>>
    /\ workflows["w"].status = "completed"
    /\ "w" \in DOMAIN state_files
    /\ state_files["w"] = dump_state(model_dump(workflows["w"]))

\* C20: delete_workflow on a name the manager holds returns True, the manager
\* no longer holds the name, and a new manager on the same root does not load
\* it; on a name the manager does not hold it returns False and changes
\* neither the manager nor the files.
C20_Delete ==
    [][\A name \in WorkflowNames :
          ManagerCalled("delete_workflow", name) =>
              IF name \in DOMAIN workflows
              THEN /\ manager_call'.value = "True"
                   /\ name \notin DOMAIN workflows'
                   /\ name \notin DOMAIN _load_workflows(state_files')
              ELSE /\ manager_call'.value = "False"
                   /\ workflows' = workflows
                   /\ state_files' = state_files]_vars

(***************************************************************************)
(* Specification SpecEval: StepCondition.evaluate on conditions and        *)
(* results maps drawn from small sets.                                     *)
(***************************************************************************)
Operators == {"eq", "ne", "gt", "lt", "contains", "exists"}

\* condition values: a number, a string, None
EvalValues == {PyInt(42), PyStr(<<"4">>), PyNone}

\* conditions with the six operators and an unknown one
EvalConditions ==
    {StepCondition(plugin_name, field, operator, value) :
        plugin_name \in {"a", "b"}, field \in {"value", "text"},
        operator \in Operators \cup {"regex"}, value \in EvalValues}

\* results of a plugin: without the fields, with a number, a string or None
\* under "value", with a string under "text"
EvalEntries ==
    {[success |-> PyBool(TRUE)],
     [success |-> PyBool(TRUE), value |-> PyInt(42)],
     [success |-> PyBool(TRUE), value |-> PyInt(0)],
     [success |-> PyBool(TRUE), value |-> PyStr(<<"4", "2">>)],
     [success |-> PyBool(TRUE), value |-> PyNone],
     [success |-> PyBool(TRUE), text |-> PyStr(<<"a", "4", "b">>)]}

\* results maps: empty, or with an entry for plugin "a"
EvalResults == {<<>>} \cup {("a" :> entry) : entry \in EvalEntries}

InitEval ==
    /\ plugin_instances = <<>>
    /\ dependency_graph = <<>>
    /\ plugin_config = <<>>
    /\ call = NoCall
    /\ detect = NoDetect
    /\ workflows = <<>>
    /\ state_files = <<>>
    /\ run = NoRun
    /\ manager_call = NoManagerCall
    /\ evaluation = NoEvaluation

\* condition.evaluate(results)
Evaluate(condition, results) ==
    /\ evaluation' = [condition |-> condition, results |-> results,
                      outcome |-> evaluate(condition, results)]
    /\ UNCHANGED <<registry_vars, call, detect, workflows, state_files, run, manager_call>>

NextEval == \E condition \in EvalConditions, results \in EvalResults : Evaluate(condition, results)

SpecEval == InitEval /\ [][NextEval]_vars

\* the call had an entry for the condition's plugin, and the entry had the field
HasEntry == evaluation.condition.plugin_name \in DOMAIN evaluation.results

HasField ==
    /\ HasEntry
    /\ evaluation.condition.field
          \in DOMAIN evaluation.results[evaluation.condition.plugin_name]

Evaluated == evaluation.condition # NoCondition

\* C21: whatever the operator, evaluate returns False when the results have no
\* entry for the condition's plugin, and when the entry has not the field.
C21_MissingDataIsFalse ==
    (Evaluated /\ ~HasField) => evaluation.outcome = Truth(FALSE)

\* `exists` on a plugin that has a result without the field: False
C21_Witness ==
    /\ evaluation.condition.operator = "exists"
    /\ HasEntry
    /\ ~HasField
    /\ evaluation.outcome = Truth(FALSE)

\* C26: with the operator `exists`, evaluate returns True whenever the
\* results have an entry for the condition's plugin, whatever its fields.
C26_ExistsAnyResult ==
    (evaluation.condition.operator = "exists" /\ HasEntry) =>
        evaluation.outcome = Truth(TRUE)

\* Python orders two numbers and two strings, nothing else of these values
Ordered(x, y) == (IsNumber(x) /\ IsNumber(y)) \/ (x.t = "str" /\ y.t = "str")

\* C27: with the operator gt or lt, when the field's value and the condition's
\* value are not ordered, evaluate returns False and does not raise.
C27_UnorderedIsFalse ==
    (/\ evaluation.condition.operator \in {"gt", "lt"}
     /\ HasField
     /\ ~Ordered(evaluation.results[evaluation.condition.plugin_name]
                                   [evaluation.condition.field],
                 evaluation.condition.value))
    => evaluation.outcome = Truth(FALSE)


(***************************************************************************)
(* Specification SpecReload: _register_plugin and reload_plugin, in any    *)
(* order, on a registry that starts empty.  A descriptor has at most       *)
(* MaxRequires entries in its requires list; what reload_plugin finds on   *)
(* disk is an input: a module whose import raises, or the descriptor its   *)
(* class now builds.                                                       *)
(***************************************************************************)
ReloadNames == {"a", "b"}

RECURSIVE RequiresLists(_)
\* the requires lists of at most n entries over ReloadNames
RequiresLists(n) ==
    IF n = 0
    THEN {<<>>}
    ELSE RequiresLists(n - 1) \cup
         {Append(r, PluginDependency(d, o)) :
             r \in {q \in RequiresLists(n - 1) : Len(q) = n - 1},
             d \in ReloadNames, o \in BOOLEAN}

Descriptors == {Plugin(r, {}) : r \in RequiresLists(MaxRequires)}

\* the reloaded module: importlib.reload raises, or plugin_cls() is built
Modules == {[raises |-> TRUE, plugin |-> Plugin(<<>>, {})]} \cup
           {[raises |-> FALSE, plugin |-> p] : p \in Descriptors}

\* PluginManager.__init__: nothing is registered
InitReload ==
    /\ plugin_instances = <<>>
    /\ dependency_graph = <<>>
    /\ plugin_config = <<>>
    /\ call = NoCall
    /\ detect = NoDetect
    /\ workflows = <<>>
    /\ state_files = <<>>
    /\ run = NoRun
    /\ manager_call = NoManagerCall
    /\ evaluation = NoEvaluation

\* PluginManager._register_plugin: a name already registered is overwritten
Register(name, plugin) ==
    /\ plugin_instances' = (name :> plugin) @@ plugin_instances
    /\ dependency_graph' \in {(name :> o) @@ dependency_graph :
                                 o \in Orders(RequiredNames(plugin))}
    /\ plugin_config' = (name :> "empty") @@ plugin_config
    /\ UNCHANGED <<call, detect, workflow_vars>>

\* PluginManager.reload_plugin: False for an unknown name and when the reload
\* raises; otherwise the new instance replaces the registered one
ReloadPlugin(name, module) ==
    /\ IF ~Registered(name) \/ module.raises
       THEN UNCHANGED <<plugin_instances, plugin_config>>
       ELSE /\ plugin_instances' = [plugin_instances EXCEPT ![name] = module.plugin]
            /\ plugin_config' = [plugin_config EXCEPT ![name] = "empty"]
    /\ UNCHANGED <<dependency_graph, call, detect, workflow_vars>>

NextReload ==
    \/ \E name \in ReloadNames, plugin \in Descriptors : Register(name, plugin)
    \/ \E name \in ReloadNames, module \in Modules : ReloadPlugin(name, module)

SpecReload == InitReload /\ [][NextReload]_vars

\* the stored edge set of every registered plugin is the set of the names its
\* registered descriptor requires non-optionally
EdgeMapMatches ==
    \A n \in DOMAIN plugin_instances :
        /\ n \in DOMAIN dependency_graph
        /\ Range(dependency_graph[n]) = RequiredNames(plugin_instances[n])

\* C31: after any sequence of register and reload operations, the stored edge
\* set of every registered plugin n is {d.name : d in requires of the registered
\* descriptor of n, d not optional}.
C31_EdgeMapMatchesRegistry == EdgeMapMatches

\* the same for the steps of _register_plugin alone
RegisterKeepsEdgeMap ==
    [][(EdgeMapMatches /\ dependency_graph' # dependency_graph) => EdgeMapMatches']_vars


(***************************************************************************)
(* Termination of run_plugin, under SpecRun.  The nesting of run_plugin    *)
(* calls is bounded by the registry when no plugin is reached again on its *)
(* own chain of requires entries; a call that ends with RecursionError is  *)
(* one whose nesting had no such bound.                                    *)
(***************************************************************************)
\* the call ended because the nesting of run_plugin calls reached the limit
RecursedWithoutBound == call.raised /\ call.error.exc = "RecursionError"

\* no plugin is reached from itself through requires entries, optional or not
RequiresAcyclic == \A n \in DOMAIN plugin_instances : n \notin Callees({n}, {})

\* C33: run(name) returns a result or fails with an error of its own after
\* finitely many body invocations on every registry; the pre-execution of the
\* dependencies does not recurse without bound, also when plugins reference
\* each other through optional dependencies only.
C33_RunTerminates == call # NoCall => ~RecursedWithoutBound

\* the same on the registries without a loop through requires entries
AcyclicRequiresTerminate == (call # NoCall /\ RequiresAcyclic) => ~RecursedWithoutBound


(***************************************************************************)
(* Specification SpecLoop: the workflow engine on a registry in which the  *)
(* plugin "x" names itself as an optional dependency, next to a plugin "a" *)
(* without dependencies.  No call is cancelled and the storage works.      *)
(***************************************************************************)
StepInputsLoop ==
    {<<"a", "none", NoCondition>>,
     <<"x", "none", NoCondition>>,
     <<"a", "none", StepCondition("a", "value", "gt", PyStr(<<"4">>))>>}

BodiesLoop ==
    [{"a", "x"} -> {DefaultBody,
                    [fails |-> Always, err |-> "EXECUTION_ERROR", value |-> 42]}]

InitLoop ==
    /\ plugin_instances = ("a" :> Plugin(<<>>, {}))
                          @@ ("x" :> Plugin(<<PluginDependency("x", TRUE)>>, {}))
    /\ dependency_graph = ("a" :> <<>>) @@ ("x" :> <<>>)
    /\ plugin_config = ("a" :> "empty") @@ ("x" :> "empty")
    /\ call = NoCall
    /\ detect = NoDetect
    /\ workflows = <<>>
    /\ state_files = <<>>
    /\ run = NoRun
    /\ manager_call = NoManagerCall
    /\ evaluation = NoEvaluation

NextLoop ==
    \/ \E name \in WorkflowNames : CreateNew(name, "d")
    \/ \E name \in WorkflowNames, input \in StepInputsLoop : AddStep(name, input)
    \/ \E name \in WorkflowNames, resume \in BOOLEAN, disk \in WorkingDisk :
          RunWorkflow(name, resume, disk)
    \/ \E bodies \in BodiesLoop, disk \in WorkingDisk : FinishStep(bodies, disk)

SpecLoop == InitLoop /\ [][NextLoop]_vars

\* the call is over: it has returned or raised
RunOver == run.pc \in {"returned", "raised"}

\* no step of the workflow of the call is Running
NoStepRunning ==
    \A j \in DOMAIN Running.steps :
        Running.steps[j].status \in {"pending", "completed", "failed", "skipped"}

\* C35: whenever Workflow.run has returned or has raised (a plugin error, or
\* another exception of the condition evaluation or of run_plugin), every step
\* of the workflow is Pending, Completed, Failed or Skipped.
C35_NoStepLeftRunning == RunOver => NoStepRunning

\* the same for the stretches of a call that do not end with an exception of
\* run_plugin that is no plugin error: they leave no further step Running
OnlyOtherExceptionsLeaveRunning ==
    [][(run'.pc \in {"returned", "raised"} /\ run'.name \in DOMAIN workflows
        /\ ~(PluginCameBack /\ run'.executed[Len(run'.executed)].raised
             /\ ~IsPluginError(run'.error)))
       => \A j \in DOMAIN workflows'[run'.name].steps :
              workflows'[run'.name].steps[j].status = "running" =>
                  /\ j \in DOMAIN workflows[run'.name].steps
                  /\ workflows[run'.name].steps[j].status = "running"
                  /\ ~(run.pc = "await" /\ workflows[run'.name].current_step + 1 = j)]_vars


(***************************************************************************)
(* Specification SpecDriven: a workflow driven only through                *)
(* create_workflow, add_step and WorkflowManager.run_workflow, on the      *)
(* registry of Init; the caller's timeout can cancel a call.               *)
(***************************************************************************)
NextDriven ==
    \/ RegisterPlugin("x", Plugin(<<>>, {}))
    \/ \E name \in WorkflowNames : CreateNew(name, "d")
    \/ \E name \in WorkflowNames, input \in StepInputs : AddStep(name, input)
    \/ \E name \in WorkflowNames, resume \in BOOLEAN, disk \in WorkingDisk :
          RunWorkflow(name, resume, disk)
    \/ \E bodies \in BodiesWorkflow, disk \in WorkingDisk : FinishStep(bodies, disk)
    \/ \E disk \in WorkingDisk : CancelRun(disk)

SpecDriven == Init /\ [][NextDriven]_vars

\* C36: the cursor of every workflow lies between 0 and the number of its
\* steps, and every step before the cursor is Completed or Skipped; so when
\* a call has returned with status Completed, every step the workflow had
\* during the call is Completed or Skipped.
C36_StepsBehindCursorSettled ==
    /\ \A w \in DOMAIN workflows :
          /\ 0 <= workflows[w].current_step
          /\ workflows[w].current_step <= Len(workflows[w].steps)
          /\ \A j \in 1..workflows[w].current_step :
                workflows[w].steps[j].status \in {"completed", "skipped"}
    /\ (run.pc = "returned" /\ Running.status = "completed") =>
          \A j \in 1..run.length : Running.steps[j].status \in {"completed", "skipped"}

\* a second call has returned after the first one was cancelled in its second
\* step, the first step being Skipped or Completed and all three settled
C36_Witness ==
    /\ run.pc = "returned"
    /\ run.count = 2
    /\ run.failed_at = 1
    /\ run.length = 3
    /\ Running.current_step = 3
    /\ \E j \in 1..3 : Running.steps[j].status = "skipped"
    /\ \E j \in 1..3 : Running.steps[j].status = "completed"


(***************************************************************************)
(* Invocations per dependency path, under SpecRun.  A dependency path of a *)
(* plugin is a sequence of positions in requires lists, followed from the  *)
(* plugin on.                                                              *)
(***************************************************************************)
\* the plugin a dependency path starting at p leads to
RECURSIVE PluginAt(_, _)
PluginAt(p, path) ==
    IF path = <<>>
    THEN p
    ELSE PluginAt(plugin_instances[p].requires[Head(path)].name, Tail(path))

\* the dependency paths starting at p, each prefixed with prefix, on a registry
\* without a loop through requires entries
RECURSIVE DepPaths(_, _)
DepPaths(p, prefix) ==
    {prefix} \cup
    UNION {DepPaths(plugin_instances[p].requires[i].name, Append(prefix, i)) :
              i \in DOMAIN plugin_instances[p].requires}

\* the number of dependency paths from p to d
PathCount(p, d) == Cardinality({path \in DepPaths(p, <<>>) : PluginAt(p, path) = d})

\* the number of invocations of the body of d during the call
BodyCount(d) == Cardinality({k \in DOMAIN call.trace : call.trace[k].plugin = d})

\* every plugin the call can reach is registered, and none is reached from itself
Resolvable ==
    /\ Registered(call.name)
    /\ Callees({call.name}, {}) \subseteq DOMAIN plugin_instances
    /\ RequiresAcyclic

\* C38: results are not memoised within a top-level run(P): the body of a
\* plugin is invoked once for every dependency path that leads from P to it,
\* so a plugin reachable through k distinct paths has its body invoked k times.
C38_OncePerPath ==
    (call # NoCall /\ Resolvable) =>
        /\ ~call.raised
        /\ \A k \in DOMAIN call.trace :
              PluginAt(call.name, call.trace[k].path) = call.trace[k].plugin
        /\ \A d \in Plugins : BodyCount(d) = PathCount(call.name, d)

\* run(a) with a requiring b and c, and b requiring c: two paths lead to c and
\* its body was invoked twice
C38_Witness ==
    /\ call # NoCall
    /\ Resolvable
    /\ call.name = "a"
    /\ PathCount("a", "c") = 2
    /\ BodyCount("c") = 2
    /\ BodyCount("b") = 1

====
